---- MODULE Spec2Model ----
(***************************************************************************)
(* A model of the shell engine of the Linux navigation simulator: the      *)
(* path helpers (utils/path.ts), the virtual filesystem lookup, the        *)
(* dispatcher runSingle with its builtins, the submit handler with its     *)
(* validator and pipeline loop (hooks/useShell), the cwd setter of App     *)
(* and the arrow-key / tree-click navigation, the autocomplete engine with *)
(* the Tab and history keys of the shell input, and the exercises          *)
(* (hooks/useMissions).                                                    *)
(*                                                                         *)
(* JavaScript strings are sequences of one-character strings; S("ls -a")   *)
(* writes one down.  A nullable value (string | null) is a sequence of     *)
(* length 0 (null) or 1 (the value).                                       *)
(***************************************************************************)
EXTENDS Integers, Sequences, FiniteSets, TLC

VARIABLES cwd, input, error, lsOutput, textOutput, lastCommand, history,
          historyIndex, outcome, calls,
          pathFrom, pathTo, pathOut,
          stageRaw, stageStdin, stageOut,
          suggestions,
          completedMissions, currentGroupIndex, prevRef, satisfied

\* The arguments and the result of one call of a function of utils/path.ts
pathVars == <<pathFrom, pathTo, pathOut>>

\* The arguments and the result of one call of the dispatcher
stageVars == <<stageRaw, stageStdin, stageOut>>

\* The state of useMissions, and the missions whose isComplete() holds
missionVars == <<completedMissions, currentGroupIndex, prevRef, satisfied>>

vars == <<cwd, input, error, lsOutput, textOutput, lastCommand, history,
          historyIndex, outcome, calls, pathVars, stageVars, suggestions, missionVars>>

----------------------------------------------------------------------------
(* Strings *)

S(str) == [i \in 1..Len(str) |-> SubSeq(str, i, i)]

None == <<>>
Some(x) == <<x>>
IsNull(o) == Len(o) = 0
Val(o) == o[1]

NL == "\n"
TAB == "\t"

\* String.prototype.trim / the regex class \s, on the characters of the model
IsSpace(c) == c \in {" ", TAB, NL}

Drop(s, n) == SubSeq(s, n + 1, Len(s))

StartsWith(s, p) == Len(s) >= Len(p) /\ SubSeq(s, 1, Len(p)) = p

EndsWith(s, p) == Len(s) >= Len(p) /\ SubSeq(s, Len(s) - Len(p) + 1, Len(s)) = p

Includes(s, p) == \E i \in 1..(Len(s) - Len(p) + 1) : SubSeq(s, i, i + Len(p) - 1) = p

TrimStart(s) ==
  IF \A i \in 1..Len(s) : IsSpace(s[i]) THEN <<>>
  ELSE Drop(s, (CHOOSE i \in 1..Len(s) : ~IsSpace(s[i]) /\ \A j \in 1..(i - 1) : IsSpace(s[j])) - 1)

TrimEnd(s) ==
  IF \A i \in 1..Len(s) : IsSpace(s[i]) THEN <<>>
  ELSE SubSeq(s, 1, CHOOSE i \in 1..Len(s) : ~IsSpace(s[i]) /\ \A j \in (i + 1)..Len(s) : IsSpace(s[j]))

Trim(s) == TrimEnd(TrimStart(s))

\* The k-th smallest element of a set of integers
Nth(set, k) == CHOOSE i \in set : Cardinality({j \in set : j < i}) = k - 1

\* s.split(c) for a one-character separator: "" gives [""], "a//b" gives ["a","","b"]
Split(s, c) ==
  LET seps == {i \in 1..Len(s) : s[i] = c}
      n == Cardinality(seps)
      From(k) == IF k = 1 THEN 1 ELSE Nth(seps, k - 1) + 1
      To(k) == IF k = n + 1 THEN Len(s) ELSE Nth(seps, k) - 1
  IN [k \in 1..(n + 1) |-> SubSeq(s, From(k), To(k))]

\* s.split(/\s+/): a run of whitespace is one separator
SplitWS(s) ==
  LET starts == {i \in 1..Len(s) : IsSpace(s[i]) /\ (i = 1 \/ ~IsSpace(s[i - 1]))}
      ends == {i \in 1..Len(s) : IsSpace(s[i]) /\ (i = Len(s) \/ ~IsSpace(s[i + 1]))}
      n == Cardinality(starts)
      From(k) == IF k = 1 THEN 1 ELSE Nth(ends, k - 1) + 1
      To(k) == IF k = n + 1 THEN Len(s) ELSE Nth(starts, k) - 1
  IN [k \in 1..(n + 1) |-> SubSeq(s, From(k), To(k))]

\* .filter(Boolean) on an array of strings: drops the empty strings
FilterBoolean(xs) == SelectSeq(xs, LAMBDA x : Len(x) > 0)

RECURSIVE Join(_, _)
Join(xs, sep) ==
  IF Len(xs) = 0 THEN <<>>
  ELSE IF Len(xs) = 1 THEN xs[1]
  ELSE xs[1] \o sep \o Join(Tail(xs), sep)

\* s.replace(/\|/g, "")
StripPipes(s) == SelectSeq(s, LAMBDA c : c # "|")

MapSeq(xs, F(_)) == [i \in 1..Len(xs) |-> F(xs[i])]

\* A const declaration: F applied to the value x, which F may use many times
With(x, F(_)) == F(x)

----------------------------------------------------------------------------
(* utils/path.ts *)

\* Mutant: a ".." met with an empty stack is kept as a segment
RECURSIVE NormStackKeepsExcess(_, _)
NormStackKeepsExcess(parts, stack) ==
  IF Len(parts) = 0 THEN stack
  ELSE IF parts[1] = S(".") THEN NormStackKeepsExcess(Tail(parts), stack)
  ELSE IF parts[1] = S("..") /\ Len(stack) > 0 THEN
    NormStackKeepsExcess(Tail(parts), SubSeq(stack, 1, Len(stack) - 1))
  ELSE NormStackKeepsExcess(Tail(parts), Append(stack, parts[1]))

RECURSIVE NormStack(_, _)
NormStack(parts, stack) ==
  IF Len(parts) = 0 THEN stack
  ELSE IF parts[1] = S(".") THEN NormStack(Tail(parts), stack)
  ELSE IF parts[1] = S("..") THEN
    NormStack(Tail(parts), IF Len(stack) > 0 THEN SubSeq(stack, 1, Len(stack) - 1) ELSE stack)
  ELSE NormStack(Tail(parts), Append(stack, parts[1]))

normalizePath(p) ==
  IF Len(p) = 0 THEN S("/")
  ELSE S("/") \o Join(NormStack(FilterBoolean(Split(p, "/")), <<>>), S("/"))

joinPaths(a, b) == normalizePath(a \o S("/") \o b)

\* The length of the longest common prefix of two arrays of segments
RECURSIVE CommonPrefix(_, _)
CommonPrefix(xs, ys) ==
  IF Len(xs) > 0 /\ Len(ys) > 0 /\ xs[1] = ys[1] THEN 1 + CommonPrefix(Tail(xs), Tail(ys)) ELSE 0

\* Mutant: the path of to from the root, whatever from is
relativePathFromRoot(from, to) ==
  With(FilterBoolean(Split(Drop(normalizePath(to), 1), "/")), LAMBDA toParts :
    IF Len(toParts) = 0 THEN S(".") ELSE Join(toParts, S("/")))

relativePath(from, to) ==
  With(normalizePath(from), LAMBDA normFrom :
  With(normalizePath(to), LAMBDA normTo :
    IF normFrom = normTo THEN S(".")
    ELSE
      With(FilterBoolean(Split(Drop(normFrom, 1), "/")), LAMBDA fromParts :
      With(FilterBoolean(Split(Drop(normTo, 1), "/")), LAMBDA toParts :
      With(CommonPrefix(fromParts, toParts), LAMBDA i :
      With(MapSeq(Drop(fromParts, i), LAMBDA x : S("..")) \o Drop(toParts, i),
           LAMBDA relParts :
        IF Len(relParts) = 0 THEN S(".") ELSE Join(relParts, S("/"))))))))

HOME == S("/home/user")

expandTilde(p) ==
  IF p = S("~") THEN HOME
  ELSE IF StartsWith(p, S("~/")) THEN HOME \o Drop(p, 1)
  ELSE p

----------------------------------------------------------------------------
(* The virtual filesystem: an excerpt of the tree of fs.ts, children in the *)
(* stored order.  A file's content is None when the node has no content.    *)

File(n, c) == [name |-> S(n), type |-> "file", children |-> <<>>, content |-> c]

Dir(n, ch) == [name |-> S(n), type |-> "dir", children |-> ch, content |-> None]

grocery == S("Milk") \o <<NL>> \o S("Eggs") \o <<NL>> \o S("Bread") \o <<NL>> \o S("Apples") \o <<NL>> \o S("Chicken")

fileSystem ==
  Dir("", <<
    Dir("tmp", <<>>),
    Dir("home", <<
      Dir("user", <<
        Dir("Documents", <<
          Dir("Notes", << File("meeting.txt", None) >>)
        >>),
        Dir("Music", <<>>),
        File(".bashrc", None),
        Dir("Examples", << File("grocery.txt", Some(grocery)) >>)
      >>)
    >>)
  >>)

\* children.find((c) => c.name === seg): the first child of that name, or None
FindChild(children, seg) ==
  LET hits == SelectSeq(children, LAMBDA c : c.name = seg)
  IN IF Len(hits) = 0 THEN None ELSE Some(hits[1])

RECURSIVE Walk(_, _)
Walk(current, segments) ==
  IF Len(segments) = 0 THEN Some(current)
  ELSE IF current.type # "dir" THEN None
  ELSE LET next == FindChild(current.children, segments[1])
       IN IF IsNull(next) THEN None ELSE Walk(Val(next), Tail(segments))

findNodeByPath(root, path) ==
  With(normalizePath(path), LAMBDA normalized :
    IF normalized = S("/") THEN Some(root)
    ELSE Walk(root, FilterBoolean(Split(Drop(normalized, 1), "/"))))

\* Mutant: any existing node counts as a directory
isDirectoryAnyNode(root, path) == ~IsNull(findNodeByPath(root, path))

isDirectory(root, path) ==
  With(findNodeByPath(root, path), LAMBDA node : ~IsNull(node) /\ Val(node).type = "dir")

\* The absolute paths of the nodes of the tree, as the directory tree view
\* computes them (joinPaths(parentPath, node.name)), parents before children.
RECURSIVE PathsUnder(_, _)
PathsUnder(node, parentPath) ==
  With(joinPaths(parentPath, node.name), LAMBDA path :
    LET sub == [i \in 1..Len(node.children) |-> PathsUnder(node.children[i], path)]
        Flat[i \in 0..Len(sub)] == IF i = 0 THEN <<>> ELSE Flat[i - 1] \o sub[i]
    IN <<path>> \o Flat[Len(sub)])

TreePaths == PathsUnder(fileSystem, <<>>)

----------------------------------------------------------------------------
(* JavaScript library functions used by the builtins *)

Min(a, b) == IF a < b THEN a ELSE b
Max(a, b) == IF a > b THEN a ELSE b

\* Array.prototype.slice(start, end), negative indices counting from the end
JsSlice(xs, start, end) ==
  LET len == Len(xs)
      s == IF start < 0 THEN Max(len + start, 0) ELSE Min(start, len)
      e == IF end < 0 THEN Max(len + end, 0) ELSE Min(end, len)
  IN IF s < e THEN SubSeq(xs, s + 1, e) ELSE <<>>

\* slice(start) with no end
JsSliceFrom(xs, start) == JsSlice(xs, start, Len(xs))

Digits == S("0123456789")

IsDigit(c) == \E i \in 1..10 : Digits[i] = c

DigitVal(c) == (CHOOSE i \in 1..10 : Digits[i] = c) - 1

RECURSIVE DigitRun(_, _)
DigitRun(s, acc) ==
  IF Len(s) > 0 /\ IsDigit(s[1]) THEN DigitRun(Tail(s), acc * 10 + DigitVal(s[1])) ELSE acc

\* parseInt(s, 10): leading whitespace, an optional sign, then the longest
\* run of digits; None stands for NaN
parseInt(s) ==
  LET t == TrimStart(s)
      neg == Len(t) > 0 /\ t[1] = "-"
      u == IF Len(t) > 0 /\ t[1] \in {"-", "+"} THEN Tail(t) ELSE t
  IN IF Len(u) = 0 \/ ~IsDigit(u[1]) THEN None
     ELSE Some(IF neg THEN 0 - DigitRun(u, 0) ELSE DigitRun(u, 0))

\* String(n) for an integer
RECURSIVE NatStr(_)
NatStr(n) == IF n < 10 THEN <<Digits[n + 1]>> ELSE NatStr(n \div 10) \o <<Digits[(n % 10) + 1]>>

String(n) == IF n < 0 THEN <<"-">> \o NatStr(0 - n) ELSE NatStr(n)

UpperCase == S("ABCDEFGHIJKLMNOPQRSTUVWXYZ")
LowerCase == S("abcdefghijklmnopqrstuvwxyz")

IsUpper(c) == \E i \in 1..26 : UpperCase[i] = c

ToLowerChar(c) == IF IsUpper(c) THEN LowerCase[CHOOSE i \in 1..26 : UpperCase[i] = c] ELSE c

toLowerCase(s) == [i \in 1..Len(s) |-> ToLowerChar(s[i])]

\* Primary collation order of the characters that occur in node names:
\* punctuation, then digits, then letters; a character outside it sorts last
Collation == S("_-.0123456789abcdefghijklmnopqrstuvwxyz")

CollRank(c) ==
  LET l == ToLowerChar(c)
  IN IF \E i \in 1..Len(Collation) : Collation[i] = l
     THEN CHOOSE i \in 1..Len(Collation) : Collation[i] = l
     ELSE Len(Collation) + 1

\* a.localeCompare(b): compare by primary rank, then lower case before upper
\* case at the first position where the case differs
RECURSIVE PrimaryCmp(_, _)
PrimaryCmp(a, b) ==
  IF Len(a) = 0 /\ Len(b) = 0 THEN 0
  ELSE IF Len(a) = 0 THEN 0 - 1
  ELSE IF Len(b) = 0 THEN 1
  ELSE IF CollRank(a[1]) < CollRank(b[1]) THEN 0 - 1
  ELSE IF CollRank(a[1]) > CollRank(b[1]) THEN 1
  ELSE PrimaryCmp(Tail(a), Tail(b))

RECURSIVE CaseCmp(_, _)
CaseCmp(a, b) ==
  IF Len(a) = 0 \/ Len(b) = 0 THEN 0
  ELSE IF a[1] = b[1] THEN CaseCmp(Tail(a), Tail(b))
  ELSE IF IsUpper(b[1]) THEN 0 - 1
  ELSE 1

localeCompare(a, b) == IF PrimaryCmp(a, b) # 0 THEN PrimaryCmp(a, b) ELSE CaseCmp(a, b)

\* The comparator of ls: directories first, then by name
EntryCmp(a, b) ==
  IF a.type # b.type THEN (IF a.type = "dir" THEN 0 - 1 ELSE 1)
  ELSE localeCompare(a.name, b.name)

\* Array.prototype.sort with the comparator of ls
RECURSIVE InsertSorted(_, _)
InsertSorted(sorted, x) ==
  IF Len(sorted) = 0 THEN <<x>>
  ELSE IF EntryCmp(x, sorted[1]) < 0 THEN <<x>> \o sorted
  ELSE <<sorted[1]>> \o InsertSorted(Tail(sorted), x)

RECURSIVE SortEntries(_)
SortEntries(xs) ==
  IF Len(xs) = 0 THEN <<>>
  ELSE InsertSorted(SortEntries(SubSeq(xs, 1, Len(xs) - 1)), xs[Len(xs)])

----------------------------------------------------------------------------
(* utils/fs.ts and the dispatcher runSingle of hooks/useShell.              *)
(* Array indices are JavaScript's (from 0): At(parts, 0) is the command.    *)

\* parts[i]; None for undefined
At(xs, i) == IF i >= 0 /\ i < Len(xs) THEN Some(xs[i + 1]) ELSE None

\* parts[i] is a string that starts with "-" and is longer than one character
IsFlagTok(t) == ~IsNull(t) /\ StartsWith(Val(t), S("-")) /\ Len(Val(t)) > 1

\* The index of the first token at or after i that is not a flag token
RECURSIVE SkipFlags(_, _)
SkipFlags(parts, i) == IF IsFlagTok(At(parts, i)) THEN SkipFlags(parts, i + 1) ELSE i

\* Mutant: the scan of a flag token starts one character late
HasFlagAfterFirstLetter(parts, from, to, ch) ==
  \E i \in from..(to - 1) : \E j \in 3..Len(parts[i + 1]) : parts[i + 1][j] = ch

\* Whether letter ch occurs after the dash in one of the tokens parts[from..to-1]
HasFlag(parts, from, to, ch) ==
  \E i \in from..(to - 1) : \E j \in 2..Len(parts[i + 1]) : parts[i + 1][j] = ch

\* The result of one stage.  threw marks a call that ended in an uncaught
\* exception instead of returning.
Result(t, l, e) == [text |-> t, ls |-> l, error |-> e, threw |-> FALSE]

Threw == [text |-> None, ls |-> None, error |-> None, threw |-> TRUE]

\* getFileContentLocal(raw, cwd, HOME, findNodeByPath, fileSystem, expandTilde).
\* bound is FALSE for a call that passes raw alone: expandTilde and
\* findNodeByPath are then undefined, and calling either is a TypeError.
getFileContentLocal(raw, c, bound) ==
  IF ~bound THEN [threw |-> TRUE, file |-> None]
  ELSE
    With(IF StartsWith(raw, S("~")) THEN expandTilde(raw) ELSE raw, LAMBDA expanded :
    With(IF StartsWith(expanded, S("/")) THEN normalizePath(expanded)
         ELSE normalizePath(joinPaths(c, expanded)), LAMBDA filePath :
    With(findNodeByPath(fileSystem, filePath), LAMBDA node :
      IF IsNull(node) \/ Val(node).type # "file" THEN [threw |-> FALSE, file |-> None]
      ELSE [threw |-> FALSE,
            file |-> Some([path |-> filePath,
                           content |-> IF IsNull(Val(node).content) THEN <<>>
                                       ELSE Val(Val(node).content)])])))

EntryText(e) == IF e.type = "dir" THEN e.name \o S("/") ELSE e.name

\* entries.map(name or name/).join("\n")
ListingText(entries) == Join(MapSeq(entries, EntryText), <<NL>>)

RunLs(parts, c) ==
  With(SkipFlags(parts, 1), LAMBDA argStart :
  With(Join(JsSliceFrom(parts, argStart), S(" ")), LAMBDA rawArg :
  With(IF StartsWith(rawArg, S("~")) THEN expandTilde(rawArg) ELSE rawArg, LAMBDA rawT :
  With(IF Len(parts) > argStart
       THEN (IF StartsWith(rawT, S("/")) THEN normalizePath(rawT)
             ELSE normalizePath(joinPaths(c, rawT)))
       ELSE c, LAMBDA targetPath :
  With([path |-> targetPath, entries |-> <<>>,
        showAll |-> HasFlag(parts, 1, argStart, "a"), long |-> HasFlag(parts, 1, argStart, "l"),
        human |-> HasFlag(parts, 1, argStart, "h"), blocks |-> HasFlag(parts, 1, argStart, "s")],
       LAMBDA empty :
  With(findNodeByPath(fileSystem, targetPath), LAMBDA node :
    IF ~isDirectory(fileSystem, targetPath)
    THEN Result(None, None, Some(S("ls: cannot access '") \o rawArg \o S("': No such directory")))
    ELSE IF IsNull(node) \/ Val(node).type # "dir"
    THEN Result(Some(<<>>), Some(empty), None)
    ELSE
      With(SortEntries(MapSeq(SelectSeq(Val(node).children,
                                        LAMBDA ch : empty.showAll \/ ~StartsWith(ch.name, S("."))),
                              LAMBDA ch : [name |-> ch.name, type |-> ch.type])),
           LAMBDA entries :
        Result(Some(ListingText(entries)), Some([empty EXCEPT !.entries = entries]), None))))))))

\* Mutant: an operand that is found clears the error of an earlier one
RECURSIVE CatLoopForgetsError(_, _, _, _)
CatLoopForgetsError(files, n, c, acc) ==
  IF Len(files) = 0 THEN acc
  ELSE
    With(getFileContentLocal(files[1], c, TRUE), LAMBDA got :
      IF IsNull(got.file)
      THEN CatLoopForgetsError(Tail(files), n, c,
                   [acc EXCEPT !.error = Some(S("cat: ") \o files[1] \o S(": No such file"))])
      ELSE CatLoopForgetsError(Tail(files), n, c,
                   [acc EXCEPT !.error = None,
                               !.outputs =
                      (IF n > 1 THEN Append(@, S("==> ") \o Val(got.file).path \o S(" <=="))
                       ELSE @) \o <<Val(got.file).content>>]))

\* The loop of cat over its file operands: acc is [outputs, error]
RECURSIVE CatLoop(_, _, _, _)
CatLoop(files, n, c, acc) ==
  IF Len(files) = 0 THEN acc
  ELSE
    With(getFileContentLocal(files[1], c, TRUE), LAMBDA got :
      IF IsNull(got.file)
      THEN CatLoop(Tail(files), n, c,
                   [acc EXCEPT !.error = Some(S("cat: ") \o files[1] \o S(": No such file"))])
      ELSE CatLoop(Tail(files), n, c,
                   [acc EXCEPT !.outputs =
                      (IF n > 1 THEN Append(@, S("==> ") \o Val(got.file).path \o S(" <=="))
                       ELSE @) \o <<Val(got.file).content>>]))

RunCat(parts, stdin, c) ==
  IF Len(parts) >= 2 THEN
    With(CatLoop(JsSliceFrom(parts, 1), Len(parts) - 1, c, [outputs |-> <<>>, error |-> None]),
         LAMBDA acc : Result(Some(Join(acc.outputs, <<NL>>)), None, acc.error))
  ELSE IF ~IsNull(stdin) THEN Result(stdin, None, None)
  ELSE Result(None, None, Some(S("cat: missing operand")))

\* /^-\d+$/.test(t); an undefined t is tested as the string "undefined"
IsDashNumber(t) ==
  /\ ~IsNull(t)
  /\ Len(Val(t)) >= 2
  /\ Val(t)[1] = "-"
  /\ \A i \in 2..Len(Val(t)) : IsDigit(Val(t)[i])

\* The lines head or tail selects from contentSource
HeadTailSelect(cmd, num, contentSource) ==
  With(Split(contentSource, NL), LAMBDA lines :
    Result(Some(Join(IF cmd = S("head") THEN JsSlice(lines, 0, num) ELSE JsSliceFrom(lines, 0 - num),
                     <<NL>>)),
           None, None))

RunHeadTail(cmd, parts, stdin, c) ==
  With(At(parts, 1) = Some(S("-n")) /\ Len(parts) >= 3, LAMBDA dashN :
  With(~dashN /\ IsDashNumber(At(parts, 1)), LAMBDA short :
  With(IF dashN THEN parseInt(parts[3])
       ELSE IF short THEN parseInt(Drop(parts[2], 1))
       ELSE None, LAMBDA parsed :
  With(IF IsNull(parsed) THEN 10 ELSE Val(parsed), LAMBDA num :
  With(IF dashN THEN 3 ELSE IF short THEN 2 ELSE 1, LAMBDA idx :
  With(Join(JsSliceFrom(parts, idx), S(" ")), LAMBDA raw :
    IF Len(parts) > idx THEN
      With(getFileContentLocal(raw, c, FALSE), LAMBDA got :
        IF got.threw THEN Threw
        ELSE IF IsNull(got.file)
        THEN Result(None, None, Some(cmd \o S(": ") \o raw \o S(": No such file")))
        ELSE HeadTailSelect(cmd, num, Val(got.file).content))
    ELSE IF ~IsNull(stdin) THEN HeadTailSelect(cmd, num, Val(stdin))
    ELSE Result(None, None, Some(cmd \o S(": missing operand")))))))))

\* The counters wc prints: all three without a flag, else those of the flags
WcParts(lines, words, bytes, fl, fw, fc) ==
  IF ~fl /\ ~fw /\ ~fc THEN <<String(lines), String(words), String(bytes)>>
  ELSE (IF fl THEN <<String(lines)>> ELSE <<>>)
       \o (IF fw THEN <<String(words)>> ELSE <<>>)
       \o (IF fc THEN <<String(bytes)>> ELSE <<>>)

\* processContent of wc: the three counters of one input and its output line
WcLine(content, name, fl, fw, fc) ==
  With(Len(Split(content, NL)), LAMBDA lines :
  With(Trim(content), LAMBDA trimmed :
  With(IF trimmed = <<>> THEN 0 ELSE Len(SplitWS(trimmed)), LAMBDA words :
    [lines |-> lines, words |-> words, bytes |-> Len(content),
     out |-> Join(Append(WcParts(lines, words, Len(content), fl, fw, fc), name), S(" "))])))

WcAdd(acc, w) ==
  [acc EXCEPT !.out = Append(@, w.out), !.lines = @ + w.lines,
              !.words = @ + w.words, !.bytes = @ + w.bytes]

\* The loop of wc over its file operands
RECURSIVE WcLoop(_, _, _, _, _, _)
WcLoop(files, c, fl, fw, fc, acc) ==
  IF Len(files) = 0 THEN acc
  ELSE
    With(getFileContentLocal(files[1], c, FALSE), LAMBDA got :
      IF got.threw THEN [acc EXCEPT !.threw = TRUE]
      ELSE IF IsNull(got.file)
      THEN WcLoop(Tail(files), c, fl, fw, fc,
                  [acc EXCEPT !.error = Some(S("wc: ") \o files[1] \o S(": No such file"))])
      ELSE WcLoop(Tail(files), c, fl, fw, fc,
                  WcAdd(acc, WcLine(Val(got.file).content, Val(got.file).path, fl, fw, fc))))

RunWc(parts, stdin, c) ==
  With(SkipFlags(parts, 1), LAMBDA idx :
  With(HasFlag(parts, 1, idx, "l"), LAMBDA fl :
  With(HasFlag(parts, 1, idx, "w"), LAMBDA fw :
  With(HasFlag(parts, 1, idx, "c"), LAMBDA fc :
  With(JsSliceFrom(parts, idx), LAMBDA files :
  With([out |-> <<>>, lines |-> 0, words |-> 0, bytes |-> 0, error |-> None, threw |-> FALSE],
       LAMBDA zero :
    IF Len(files) = 0 /\ IsNull(stdin)
    THEN Result(None, None, Some(S("wc: missing file operand")))
    ELSE
      With(IF Len(files) = 0 THEN WcAdd(zero, WcLine(Val(stdin), S("-"), fl, fw, fc))
           ELSE WcLoop(files, c, fl, fw, fc, zero), LAMBDA acc :
        IF acc.threw THEN Threw
        ELSE Result(Some(Join(IF Len(files) > 1
                              THEN Append(acc.out,
                                          Join(Append(WcParts(acc.lines, acc.words, acc.bytes,
                                                              fl, fw, fc), S("total")), S(" ")))
                              ELSE acc.out, <<NL>>)),
                    None, acc.error))))))))

\* regex.test(line) for new RegExp(pattern, ignoreCase ? "i" : ""), for the
\* patterns without metacharacters: the pattern occurs in the line
RegexTest(pattern, ignoreCase, line) ==
  IF ignoreCase THEN Includes(toLowerCase(line), toLowerCase(pattern))
  ELSE Includes(line, pattern)

\* processLines of grep
GrepLines(lines, name, multi, pattern, ignoreCase, countFlag) ==
  With(SelectSeq(lines, LAMBDA line : RegexTest(pattern, ignoreCase, line)), LAMBDA hits :
  With(~IsNull(name) /\ Len(Val(name)) > 0 /\ multi, LAMBDA label :
    IF countFlag
    THEN (IF label THEN Val(name) \o S(":") \o String(Len(hits)) ELSE String(Len(hits)))
    ELSE Join(MapSeq(hits, LAMBDA line : IF label THEN Val(name) \o S(":") \o line ELSE line),
              <<NL>>)))

\* The loop of grep over its file operands: acc is [perFile, error, threw]
RECURSIVE GrepLoop(_, _, _, _, _, _, _)
GrepLoop(files, n, c, pattern, ignoreCase, countFlag, acc) ==
  IF Len(files) = 0 THEN acc
  ELSE
    With(getFileContentLocal(files[1], c, FALSE), LAMBDA got :
      IF got.threw THEN [acc EXCEPT !.threw = TRUE]
      ELSE IF IsNull(got.file)
      THEN GrepLoop(Tail(files), n, c, pattern, ignoreCase, countFlag,
                    [acc EXCEPT !.error = Some(S("grep: ") \o files[1] \o S(": No such file"))])
      ELSE GrepLoop(Tail(files), n, c, pattern, ignoreCase, countFlag,
                    [acc EXCEPT !.perFile =
                       Append(@, GrepLines(Split(Val(got.file).content, NL),
                                           Some(Val(got.file).path),
                                           n > 1, pattern, ignoreCase, countFlag))]))

\* Strips one pair of surrounding single or double quotes
StripQuotes(pattern) ==
  IF Len(pattern) >= 2 /\ \E q \in {"'", "\""} : pattern[1] = q /\ pattern[Len(pattern)] = q
  THEN SubSeq(pattern, 2, Len(pattern) - 1)
  ELSE pattern

RunGrep(parts, stdin, c) ==
  With(SkipFlags(parts, 1), LAMBDA idxGrep :
  With(HasFlag(parts, 1, idxGrep, "i"), LAMBDA ignoreCase :
  With(HasFlag(parts, 1, idxGrep, "c"), LAMBDA countFlag :
  With(At(parts, idxGrep), LAMBDA rawPattern :
    IF IsNull(rawPattern) THEN Result(None, None, Some(S("grep: missing pattern")))
    ELSE
      With(StripQuotes(Val(rawPattern)), LAMBDA pattern :
      With(JsSliceFrom(parts, idxGrep + 1), LAMBDA filesGrep :
        IF Len(filesGrep) = 0 THEN
          IF ~IsNull(stdin)
          THEN Result(Some(GrepLines(Split(Val(stdin), NL), None, FALSE,
                                     pattern, ignoreCase, countFlag)),
                      None, None)
          ELSE Result(None, None, Some(S("grep: missing file")))
        ELSE
          With(GrepLoop(filesGrep, Len(filesGrep), c, pattern, ignoreCase, countFlag,
                        [perFile |-> <<>>, error |-> None, threw |-> FALSE]), LAMBDA acc :
            IF acc.threw THEN Threw
            ELSE Result(Some(Join(acc.perFile, <<NL>>)), None, acc.error))))))))

\* s.split(sep) for a separator string of one or more characters
RECURSIVE SplitStrAcc(_, _, _, _)
SplitStrAcc(s, sep, cur, acc) ==
  IF Len(s) = 0 THEN Append(acc, cur)
  ELSE IF StartsWith(s, sep) THEN SplitStrAcc(Drop(s, Len(sep)), sep, <<>>, Append(acc, cur))
  ELSE SplitStrAcc(Tail(s), sep, Append(cur, s[1]), acc)

SplitStr(s, sep) == SplitStrAcc(s, sep, <<>>, <<>>)

\* The option loop of cut: st is [fieldsArg, delim, idx]
RECURSIVE CutScan(_, _)
CutScan(parts, st) ==
  IF st.idx >= Len(parts) THEN st
  ELSE
    LET p == parts[st.idx + 1]
        nxt == At(parts, st.idx + 1)
    IN IF StartsWith(p, S("-f")) THEN
         IF p = S("-f")
         THEN CutScan(parts, [st EXCEPT !.fieldsArg = IF IsNull(nxt) \/ Val(nxt) = <<>> THEN None ELSE nxt,
                                        !.idx = @ + 2])
         ELSE CutScan(parts, [st EXCEPT !.fieldsArg = Some(Drop(p, 2)), !.idx = @ + 1])
       ELSE IF StartsWith(p, S("-d")) THEN
         IF p = S("-d")
         THEN CutScan(parts, [st EXCEPT !.delim = IF IsNull(nxt) \/ Val(nxt) = <<>> THEN <<TAB>> ELSE Val(nxt),
                                        !.idx = @ + 2])
         ELSE CutScan(parts, [st EXCEPT !.delim = Drop(p, 2), !.idx = @ + 1])
       ELSE st

\* One output line of cut: the fields of the line named by fieldNums
CutLine(line, delimChar, fieldNums) ==
  With(SplitStr(line, delimChar), LAMBDA cols :
    Join(MapSeq(fieldNums, LAMBDA n : IF n - 1 < Len(cols) THEN cols[n] ELSE <<>>), delimChar))

\* The loop of cut over its file operands: acc is [out, error, threw]
RECURSIVE CutLoop(_, _, _, _, _, _)
CutLoop(files, n, c, delimChar, fieldNums, acc) ==
  IF Len(files) = 0 THEN acc
  ELSE
    With(getFileContentLocal(files[1], c, FALSE), LAMBDA got :
      IF got.threw THEN [acc EXCEPT !.threw = TRUE]
      ELSE IF IsNull(got.file)
      THEN CutLoop(Tail(files), n, c, delimChar, fieldNums,
                   [acc EXCEPT !.error = Some(S("cut: ") \o files[1] \o S(": No such file"))])
      ELSE CutLoop(Tail(files), n, c, delimChar, fieldNums,
                   [acc EXCEPT !.out =
                      (IF n > 1 THEN Append(@, S("==> ") \o Val(got.file).path \o S(" <==")) ELSE @)
                      \o MapSeq(Split(Val(got.file).content, NL),
                                LAMBDA line : CutLine(line, delimChar, fieldNums))]))

RunCut(parts, stdin, c) ==
  IF Len(parts) < 2 THEN Result(None, None, Some(S("cut: missing operand")))
  ELSE
    With(CutScan(parts, [fieldsArg |-> None, delim |-> <<TAB>>, idx |-> 1]), LAMBDA st :
      IF IsNull(st.fieldsArg) THEN Result(None, None, Some(S("cut: missing -f option")))
      ELSE
        With(JsSliceFrom(parts, st.idx), LAMBDA filesCut :
        With(IF st.delim = <<"\\", "t">> THEN <<TAB>> ELSE st.delim, LAMBDA delimChar :
        With(MapSeq(SelectSeq(MapSeq(Split(Val(st.fieldsArg), ","), parseInt),
                              LAMBDA n : ~IsNull(n) /\ Val(n) > 0), Val), LAMBDA fieldNums :
          IF Len(fieldNums) = 0 THEN Result(None, None, Some(S("cut: invalid field list")))
          ELSE IF Len(filesCut) = 0 THEN
            IF ~IsNull(stdin)
            THEN Result(Some(Join(MapSeq(Split(Val(stdin), NL),
                                         LAMBDA line : CutLine(line, delimChar, fieldNums)),
                                  <<NL>>)),
                        None, None)
            ELSE Result(None, None, Some(S("cut: missing file")))
          ELSE
            With(CutLoop(filesCut, Len(filesCut), c, delimChar, fieldNums,
                         [out |-> <<>>, error |-> None, threw |-> FALSE]), LAMBDA acc :
              IF acc.threw THEN Threw
              ELSE Result(Some(Join(acc.out, <<NL>>)), None, acc.error))))))

Supported == S("cd, pwd, ls, cat, head, tail, wc, grep, cut")

\* The chain of builtins of runSingle after its cd guard
Dispatch(cmd, parts, stdin, c) ==
  IF cmd = S("ls") THEN RunLs(parts, c)
  ELSE IF cmd = S("cat") THEN RunCat(parts, stdin, c)
  ELSE IF cmd = S("head") \/ cmd = S("tail") THEN RunHeadTail(cmd, parts, stdin, c)
  ELSE IF cmd = S("wc") THEN RunWc(parts, stdin, c)
  ELSE IF cmd = S("grep") THEN RunGrep(parts, stdin, c)
  ELSE IF cmd = S("cut") THEN RunCut(parts, stdin, c)
  ELSE IF cmd = S("pwd") THEN Result(Some(c), None, None)
  ELSE Result(None, None,
              Some(S("Unknown command: ") \o cmd \o S(". Supported: ") \o Supported \o S(".")))

PipeNotSupported == S("cd: cannot be piped")

\* Mutant: runSingle without its cd guard, so that cd reaches the dispatcher
runSingleWithoutCdGuard(raw, stdin, c) ==
  With(FilterBoolean(Split(raw, " ")), LAMBDA parts : Dispatch(parts[1], parts, stdin, c))

\* runSingle(raw, stdin), with the cwd of the render the handler closes over
runSingle(raw, stdin, c) ==
  With(FilterBoolean(Split(raw, " ")), LAMBDA parts :
    IF parts[1] = S("cd") THEN Result(None, None, Some(PipeNotSupported))
    ELSE Dispatch(parts[1], parts, stdin, c))

----------------------------------------------------------------------------
(* The submit handler of hooks/useShell and the cwd setter of App *)

\* What one run of the handler does to the session.  go is the argument of
\* the handler's setCwd call (None: no call); clearInput is FALSE only when
\* the handler was left by an exception before any setInput("").
End(kind, e, t, l, go, cs) ==
  [outcome |-> kind, error |-> e, text |-> t, ls |-> l, go |-> go,
   clearInput |-> kind # "exception", calls |-> cs, trimmed |-> <<>>]

\* Mutant: a failing stage leaves the text and the listing of earlier stages
StageFailureKeepsPartial(out, currentText, lastLs, cs) ==
  End("failure", out.error, currentText, lastLs, None, cs)

\* The exit of the pipeline loop at a stage whose out.error is set: the
\* outputs were cleared when the handler started and stay cleared
StageFailure(out, currentText, lastLs, cs) ==
  End("failure", out.error, None, None, None, cs)

\* Mutant: the listing is that of the stage just run, or none
NextLsOfThisStage(out, lastLs) == out.ls

\* lastLs after a stage
NextLs(out, lastLs) == IF ~IsNull(out.ls) THEN out.ls ELSE lastLs

\* Mutant: only the first text of the pipeline is ever handed on
NextTextKeepsFirst(out, currentText) ==
  IF ~IsNull(currentText) THEN currentText
  ELSE IF ~IsNull(out.text) THEN out.text
  ELSE IF ~IsNull(out.ls) THEN Some(ListingText(Val(out.ls).entries))
  ELSE currentText

\* currentText after a stage
NextText(out, currentText) ==
  IF ~IsNull(out.text) THEN out.text
  ELSE IF ~IsNull(out.ls) THEN Some(ListingText(Val(out.ls).entries))
  ELSE currentText

\* The loop over the stages of a pipeline; cs logs each runSingle call
RECURSIVE PipeLoop(_, _, _, _, _)
PipeLoop(stages, c, currentText, lastLs, cs) ==
  IF Len(stages) = 0 THEN End("success", None, currentText, lastLs, None, cs)
  ELSE
    With(runSingle(stages[1], currentText, c), LAMBDA out :
      LET cs2 == Append(cs, [stage |-> stages[1], stdin |-> currentText, out |-> out])
      IN IF out.threw THEN End("exception", None, None, None, None, cs2)
         ELSE IF ~IsNull(out.error) THEN StageFailure(out, currentText, lastLs, cs2)
         ELSE PipeLoop(Tail(stages), c, NextText(out, currentText), NextLs(out, lastLs), cs2))

\* The backtick character, which cannot be written in a string here
BACKTICK == "backtick"

\* Mutant: the character class without the dollar sign
HasDangerousCharExceptDollar(s) == \E i \in 1..Len(s) : s[i] \in {BACKTICK, ";", "&", "|", ">", "<"}

\* The test of the validator's character class (backtick ; & | > < $) on s
HasDangerousChar(s) == \E i \in 1..Len(s) : s[i] \in {BACKTICK, ";", "&", "|", ">", "<", "$"}

MaxCommandLength == 200

allowedCommands == {S("cd"), S("pwd"), S("ls"), S("cat"), S("head"), S("tail"), S("wc"), S("grep"), S("cut")}

\* trimmed.split("|").map((s) => s.trim()).filter(Boolean)
SplitStages(trimmed) == FilterBoolean(MapSeq(Split(trimmed, "|"), Trim))

\* Mutant: a cd whose target is not a directory falls back to the home directory
CdSingleFallsBackHome(singleParts, c) ==
  IF Len(singleParts) = 1 THEN End("success", None, None, None, Some(HOME), <<>>)
  ELSE
    With(Join(JsSliceFrom(singleParts, 1), S(" ")), LAMBDA targetRaw :
    With(IF StartsWith(targetRaw, S("~")) THEN expandTilde(targetRaw) ELSE targetRaw,
         LAMBDA expandedRaw :
    With(IF StartsWith(expandedRaw, S("/")) THEN normalizePath(expandedRaw)
         ELSE normalizePath(joinPaths(c, expandedRaw)), LAMBDA target :
      IF isDirectory(fileSystem, target) THEN End("success", None, None, None, Some(target), <<>>)
      ELSE End("failure", Some(S("cd: not a directory: ") \o targetRaw), None, None, Some(HOME), <<>>))))

\* Mutant: a relative cd target is resolved against the home directory
CdSingleRelativeToHome(singleParts, c) ==
  IF Len(singleParts) = 1 THEN End("success", None, None, None, Some(HOME), <<>>)
  ELSE
    With(Join(JsSliceFrom(singleParts, 1), S(" ")), LAMBDA targetRaw :
    With(IF StartsWith(targetRaw, S("~")) THEN expandTilde(targetRaw) ELSE targetRaw,
         LAMBDA expandedRaw :
    With(IF StartsWith(expandedRaw, S("/")) THEN normalizePath(expandedRaw)
         ELSE normalizePath(joinPaths(HOME, expandedRaw)), LAMBDA target :
      IF isDirectory(fileSystem, target) THEN End("success", None, None, None, Some(target), <<>>)
      ELSE End("failure", Some(S("cd: not a directory: ") \o targetRaw), None, None, None, <<>>))))

\* The single-command cd branch of the handler
CdSingle(singleParts, c) ==
  IF Len(singleParts) = 1 THEN End("success", None, None, None, Some(HOME), <<>>)
  ELSE
    With(Join(JsSliceFrom(singleParts, 1), S(" ")), LAMBDA targetRaw :
    With(IF StartsWith(targetRaw, S("~")) THEN expandTilde(targetRaw) ELSE targetRaw,
         LAMBDA expandedRaw :
    With(IF StartsWith(expandedRaw, S("/")) THEN normalizePath(expandedRaw)
         ELSE normalizePath(joinPaths(c, expandedRaw)), LAMBDA target :
      IF isDirectory(fileSystem, target) THEN End("success", None, None, None, Some(target), <<>>)
      ELSE End("failure", Some(S("cd: not a directory: ") \o targetRaw), None, None, None, <<>>))))

\* The branches of the handler after the validator
Evaluate(trimmed, c) ==
  With(SplitStages(trimmed), LAMBDA stages :
    IF Len(stages) > 1 THEN PipeLoop(stages, c, None, None, <<>>)
    ELSE
      With(FilterBoolean(Split(trimmed, " ")), LAMBDA singleParts :
        IF singleParts[1] = S("cd") THEN CdSingle(singleParts, c)
        ELSE
          With(runSingle(trimmed, None, c), LAMBDA out :
            LET cs == <<[stage |-> trimmed, stdin |-> None, out |-> out]>>
            IN IF out.threw THEN End("exception", None, None, None, None, cs)
               ELSE IF ~IsNull(out.error) THEN End("failure", out.error, None, None, None, cs)
               ELSE End("success", None, out.text, out.ls, None, cs))))

DangerousMessage == S("Unsupported or potentially dangerous characters in command.")

\* handleShellSubmit for the typed line, in a render whose cwd is c
handleShellSubmit(line, c) ==
  With(Trim(line), LAMBDA trimmed :
  With(SplitWS(trimmed)[1], LAMBDA firstCmd :
    [(IF trimmed = <<>> THEN End("empty", None, None, None, None, <<>>)
      ELSE IF HasDangerousChar(StripPipes(trimmed))
      THEN End("failure", Some(DangerousMessage), None, None, None, <<>>)
      ELSE IF Len(trimmed) > MaxCommandLength
      THEN End("failure", Some(S("Command too long.")), None, None, None, <<>>)
      ELSE IF firstCmd \notin allowedCommands /\ ~Includes(trimmed, S("|"))
      THEN End("failure",
               Some(S("Unknown command: ") \o firstCmd \o S(". Supported: ") \o Supported \o S(".")),
               None, None, None, <<>>)
      ELSE Evaluate(trimmed, c))
     EXCEPT !.trimmed = trimmed]))

\* App's setCwd: the new cwd after setCwd(p) when the cwd is cur
setCwd(p, cur) ==
  With(normalizePath(p), LAMBDA normalized :
    IF isDirectory(fileSystem, normalized) THEN normalized ELSE cur)

----------------------------------------------------------------------------
(* The autocomplete engine: utils/completion.ts, the effect of useShell *)
(* that fills the suggestions, and the Tab key of the shell input       *)

\* s.lastIndexOf(ch), from 0; -1 when ch does not occur
LastIndexOf(s, ch) ==
  IF \E i \in 1..Len(s) : s[i] = ch
  THEN (CHOOSE i \in 1..Len(s) : s[i] = ch /\ \A j \in (i + 1)..Len(s) : s[j] # ch) - 1
  ELSE 0 - 1

\* matches.slice(0, 8)
MaxSuggestions == 8

\* A slice that forgets the cap
SliceUncapped(xs, start, end) == xs

\* The cap on the suggestions
SliceSuggestions(xs, start, end) == JsSlice(xs, start, end)

\* baseDir and prefix of the argument after its tilde was expanded
CompletionBase(processed, c) ==
  With(LastIndexOf(processed, "/"), LAMBDA idx :
    IF StartsWith(processed, S("/")) THEN
      IF EndsWith(processed, S("/")) THEN [baseDir |-> normalizePath(processed), prefix |-> <<>>]
      ELSE IF idx <= 0 THEN [baseDir |-> S("/"), prefix |-> Drop(processed, 1)]
      ELSE [baseDir |-> normalizePath(JsSlice(processed, 0, idx)), prefix |-> Drop(processed, idx + 1)]
    ELSE
      IF EndsWith(processed, S("/"))
      THEN [baseDir |-> normalizePath(joinPaths(c, processed)), prefix |-> <<>>]
      ELSE IF idx = 0 - 1 THEN [baseDir |-> c, prefix |-> processed]
      ELSE [baseDir |-> normalizePath(joinPaths(c, JsSlice(processed, 0, idx))),
            prefix |-> Drop(processed, idx + 1)])

\* The suggestion made for the child ch of baseDir
SuggestionFor(ch, arg, baseDir, useTilde) ==
  With(IF StartsWith(arg, S("/")) \/ StartsWith(arg, S("~"))
       THEN (IF baseDir = S("/") THEN S("/") \o ch.name ELSE baseDir \o S("/") \o ch.name)
       ELSE IF Includes(arg, S("/")) THEN JsSlice(arg, 0, LastIndexOf(arg, "/") + 1) \o ch.name
       ELSE ch.name, LAMBDA suggestion :
  With(IF useTilde /\ StartsWith(suggestion, HOME)
       THEN S("~") \o Drop(suggestion, Len(HOME)) ELSE suggestion, LAMBDA abbreviated :
    IF ch.type = "dir" THEN abbreviated \o S("/") ELSE abbreviated))

\* getPathCompletions(arg, cwd, HOME, fileSystem, findNodeByPath, expandTilde)
getPathCompletions(arg, c, root) ==
  With(arg = S("~") \/ StartsWith(arg, S("~/")), LAMBDA useTilde :
  With(CompletionBase(IF useTilde THEN expandTilde(arg) ELSE arg, c), LAMBDA b :
  With(findNodeByPath(root, b.baseDir), LAMBDA node :
    IF IsNull(node) \/ Val(node).type # "dir" THEN <<>>
    ELSE
      With(SelectSeq(Val(node).children, LAMBDA ch : StartsWith(ch.name, b.prefix)), LAMBDA matches :
        SliceSuggestions([i \in 1..Len(matches) |-> SuggestionFor(matches[i], arg, b.baseDir, useTilde)],
                         0, MaxSuggestions)))))

\* argForCompletion of the effect for the tokens of the last stage: null
\* when nothing is to be completed
ArgForCompletion(tokens, stageEndsWithSpace) ==
  With(tokens[1], LAMBDA cmd :
    IF cmd \in {S("cd"), S("ls"), S("cat"), S("head"), S("tail"), S("wc"), S("cut")} THEN
      IF stageEndsWithSpace THEN Some(<<>>)
      ELSE IF Len(tokens) >= 2 THEN Some(tokens[Len(tokens)])
      ELSE None
    ELSE IF cmd = S("grep") THEN
      IF Len(tokens) >= 3
      THEN (IF stageEndsWithSpace THEN Some(<<>>) ELSE Some(tokens[Len(tokens)]))
      ELSE None
    ELSE None)

\* The autocomplete effect of useShell: the suggestions it sets for the
\* input inp in a render whose cwd is c, over the tree root
Autocomplete(inp, c, root) ==
  With(Split(inp, "|"), LAMBDA stages :
  With(stages[Len(stages)], LAMBDA lastStage :
  With(FilterBoolean(SplitWS(Trim(TrimStart(lastStage)))), LAMBDA tokens :
    IF Len(tokens) = 0 THEN <<>>
    ELSE
      With(ArgForCompletion(tokens, Len(lastStage) > 0 /\ IsSpace(lastStage[Len(lastStage)])),
           LAMBDA argForCompletion :
        IF ~IsNull(argForCompletion) THEN getPathCompletions(Val(argForCompletion), c, root)
        ELSE <<>>))))

\* newVal of the Tab branch of handleKeyDown for the input inp and the
\* first suggestion first
TabValue(inp, first) ==
  With(SplitWS(Trim(inp))[1], LAMBDA cmd :
    cmd \o S(" ") \o first \o (IF EndsWith(first, S("/")) THEN <<>> ELSE S(" ")))

----------------------------------------------------------------------------
(* The lines a user submits *)

\* The number of lines submitted in one session
MaxHistory == 2

LongLine == S("ls ") \o [i \in 1..MaxCommandLength |-> "a"]

CdLines ==
  { S("cd"), S("cd .."), S("cd Documents/Notes"), S("cd ~/Documents/../Examples/."),
    S("cd /nonexistent"), S("cd .bashrc") }

PlainLines ==
  { <<>>, S("ls"), S(" ls -a ~ "), S("pwd"), S("cat .bashrc Examples/grocery.txt nope"), S("foo"),
    S("head ~/Examples/grocery.txt"), S("tail -n 2 nope"), S("wc -l .bashrc"),
    S("grep Milk Examples/grocery.txt"), S("cut -f1 .bashrc") }

RejectedLines ==
  { S("pwd | cat ; cd /tmp"), S("ls & pwd"), S("ls > out"), S("cat < .bashrc"), S("cd $HOME"),
    S("ls ") \o <<BACKTICK>> \o S("pwd") \o <<BACKTICK>>, LongLine }

PipeLines ==
  { S("ls | wc -l"), S("ls | ls -a Documents"), S("pwd | cat"),
    S("cat ~/Examples/grocery.txt | grep -i e | head -n 2"), S("foo |"),
    S("cd /tmp | ls"), S("ls | cd /tmp"), S("pwd | cd | cat"), S("foo | cd /tmp"),
    S("pwd | foo | cat"), S("wc x | cd /tmp"), S("head ~/Examples/grocery.txt | foo") }

Lines == CdLines \cup PlainLines \cup RejectedLines \cup PipeLines

----------------------------------------------------------------------------
(* Actions *)

\* No call of a path function or of the dispatcher on its own is under way
PathIdle == pathFrom = <<>> /\ pathTo = <<>> /\ pathOut = None

StageIdle == stageRaw = <<>> /\ stageStdin = None /\ stageOut = None

\* useMissions of a session without stored progress, before any output
MissionIdle ==
  /\ completedMissions = {}
  /\ currentGroupIndex = 0
  /\ prevRef = {}
  /\ satisfied = {}

Init ==
  /\ PathIdle
  /\ StageIdle
  /\ MissionIdle
  /\ suggestions = <<>>
  /\ cwd = normalizePath(HOME)
  /\ input = <<>>
  /\ error = None
  /\ lsOutput = None
  /\ textOutput = None
  /\ lastCommand = None
  /\ history = <<>>
  /\ historyIndex = None
  /\ outcome = "none"
  /\ calls = <<>>

\* The paths of the nodes of the tree: every value the cwd can take
NodePaths == {TreePaths[i] : i \in 1..Len(TreePaths)}

\* handleShellSubmit tabulated over the lines and the paths, so that a step
\* looks the result up instead of parsing the line again
SubmitTable == [c \in NodePaths |-> [line \in Lines |-> handleShellSubmit(line, c)]]

\* The autocomplete effect tabulated over the lines and the paths
SuggestTable == [c \in NodePaths |-> [inp \in Lines |-> Autocomplete(inp, c, fileSystem)]]

\* The suggestions the autocomplete effect sets for the input inp in a
\* render whose cwd is c: looked up for the inputs that are tabulated
SuggestionsFor(inp, c) ==
  IF inp \in Lines THEN SuggestTable[c][inp] ELSE Autocomplete(inp, c, fileSystem)

\* The state updates of one run of the handler, whose result is r
Commit(line, r) ==
  /\ cwd' = (IF IsNull(r.go) THEN cwd ELSE setCwd(Val(r.go), cwd))
  /\ input' = (IF r.clearInput THEN <<>> ELSE line)
  /\ error' = r.error
  /\ lsOutput' = r.ls
  /\ textOutput' = r.text
  /\ outcome' = r.outcome
  /\ calls' = r.calls
  /\ lastCommand' = Some(r.trimmed)
  /\ history' = Append(history, r.trimmed)
  /\ historyIndex' = None
  /\ suggestions' = SuggestionsFor(IF r.clearInput THEN <<>> ELSE line,
                                   IF IsNull(r.go) THEN cwd ELSE setCwd(Val(r.go), cwd))
  /\ UNCHANGED <<pathVars, stageVars, missionVars>>

\* The user types line into the shell input and submits the form
Submit(line) ==
  /\ Len(history) < MaxHistory
  /\ Commit(line, SubmitTable[cwd][line])

shellState == <<input, error, lsOutput, textOutput, lastCommand, history, historyIndex, outcome, calls>>

\* The click handler of the name of the tree node at path p, when the cwd is
\* c: the cwd afterwards
onClick(p, c) ==
  IF Val(findNodeByPath(fileSystem, p)).type = "dir" THEN setCwd(p, c) ELSE c

Segments(c) == FilterBoolean(Split(Drop(normalizePath(c), 1), "/"))

DirsOf(node) == SelectSeq(node.children, LAMBDA ch : ch.type = "dir")

\* dirs.findIndex((d) => d.name === name), from 0; -1 when there is none
FindIndex(dirs, name) ==
  IF \E i \in 1..Len(dirs) : dirs[i].name = name
  THEN (CHOOSE i \in 1..Len(dirs) : dirs[i].name = name /\ \A j \in 1..(i - 1) : dirs[j].name # name) - 1
  ELSE 0 - 1

ArrowKeys == {"ArrowUp", "ArrowDown", "ArrowLeft", "ArrowRight"}

\* The keydown handler of the tree, with the focus outside the shell input,
\* for key when the cwd is c: the cwd afterwards
onKey(key, c) ==
  With(Segments(c), LAMBDA segments :
  With(S("/") \o Join(JsSlice(segments, 0, 0 - 1), S("/")), LAMBDA parentPath :
    IF key = "ArrowLeft" THEN
      IF c # S("/") THEN setCwd(parentPath, c) ELSE c
    ELSE IF key = "ArrowRight" THEN
      With(findNodeByPath(fileSystem, c), LAMBDA node :
        IF ~IsNull(node) /\ Val(node).type = "dir" /\ Len(DirsOf(Val(node))) > 0
        THEN setCwd(joinPaths(c, DirsOf(Val(node))[1].name), c)
        ELSE c)
    ELSE IF c = S("/") THEN c
    ELSE
      With(findNodeByPath(fileSystem, parentPath), LAMBDA parentNode :
        IF IsNull(parentNode) \/ Val(parentNode).type # "dir" THEN c
        ELSE
          With(DirsOf(Val(parentNode)), LAMBDA dirs :
          With(FindIndex(dirs, segments[Len(segments)]), LAMBDA idx :
            IF idx = 0 - 1 THEN c
            ELSE IF key = "ArrowUp" THEN
              IF idx > 0 THEN setCwd(joinPaths(parentPath, dirs[idx].name), c) ELSE c
            ELSE
              IF idx < Len(dirs) - 1 THEN setCwd(joinPaths(parentPath, dirs[idx + 2].name), c)
              ELSE c)))))

\* onClick and onKey tabulated over the paths
ClickTable == [c \in NodePaths |-> [i \in 1..Len(TreePaths) |-> onClick(TreePaths[i], c)]]

KeyTable == [c \in NodePaths |-> [key \in ArrowKeys |-> onKey(key, c)]]

\* A click on the name of the i-th node of the tree
ClickTreeNode(i) ==
  /\ cwd' = ClickTable[cwd][i]
  /\ suggestions' = SuggestionsFor(input, ClickTable[cwd][i])
  /\ UNCHANGED <<shellState, pathVars, stageVars, missionVars>>

\* An arrow key pressed with the focus outside the shell input
ArrowKey(key) ==
  /\ cwd' = KeyTable[cwd][key]
  /\ suggestions' = SuggestionsFor(input, KeyTable[cwd][key])
  /\ UNCHANGED <<shellState, pathVars, stageVars, missionVars>>

Next ==
  \/ \E line \in Lines : Submit(line)
  \/ \E i \in 1..Len(TreePaths) : ClickTreeNode(i)
  \/ \E key \in ArrowKeys : ArrowKey(key)

Spec == Init /\ [][Next]_vars

----------------------------------------------------------------------------
(* The functions of utils/path.ts, each called once on arguments drawn from *)
(* the strings over PathChars of at most MaxPathLen characters: absolute    *)
(* and relative paths with empty, ".", ".." and named segments.             *)

MaxPathLen == 4

PathChars == {"/", ".", "a"}

PathStrings == UNION {[1..n -> PathChars] : n \in 0..MaxPathLen}

\* The state of the shell of a session in which no line was submitted yet
ShellIdle ==
  /\ input = <<>>
  /\ error = None
  /\ lsOutput = None
  /\ textOutput = None
  /\ lastCommand = None
  /\ history = <<>>
  /\ historyIndex = None
  /\ outcome = "none"
  /\ calls = <<>>
  /\ suggestions = <<>>

PathInit ==
  /\ pathFrom \in PathStrings
  /\ pathTo \in PathStrings
  /\ pathOut = None
  /\ cwd = normalizePath(HOME)
  /\ ShellIdle
  /\ StageIdle
  /\ MissionIdle

CallNormalizePath ==
  /\ IsNull(pathOut)
  /\ pathOut' = Some([fn |-> "normalizePath", ret |-> normalizePath(pathFrom)])
  /\ UNCHANGED <<cwd, shellState, pathFrom, pathTo, stageVars, suggestions, missionVars>>

CallRelativePath ==
  /\ IsNull(pathOut)
  /\ pathOut' = Some([fn |-> "relativePath", ret |-> relativePath(pathFrom, pathTo)])
  /\ UNCHANGED <<cwd, shellState, pathFrom, pathTo, stageVars, suggestions, missionVars>>

PathNext == CallNormalizePath \/ CallRelativePath

PathSpec == PathInit /\ [][PathNext]_vars

----------------------------------------------------------------------------
(* The dispatcher runSingle called once, as a stage of a pipeline would     *)
(* call it: on a stage drawn from StageRaws, with a stdin drawn from        *)
(* StageStdins (null for a first stage), in a session whose cwd is any      *)
(* directory of the tree.                                                   *)

DirPaths == {p \in NodePaths : isDirectory(fileSystem, p)}

\* The operands of ls: none (the cwd) or the absolute path of a directory
LsOperands == {<<>>} \cup {S(" ") \o d : d \in DirPaths}

LsRaws == {S("ls") \o f \o d : f \in {<<>>, S(" -a"), S(" -la")}, d \in LsOperands}

BASHRC == S("/home/user/.bashrc")

GROCERY == S("/home/user/Examples/grocery.txt")

\* Stages with two or more file operands, all found
MultiFileRaws ==
  { S("cat ") \o BASHRC \o S(" ") \o GROCERY, S("wc ") \o BASHRC \o S(" ") \o GROCERY,
    S("wc ") \o GROCERY \o S(" ") \o GROCERY \o S(" ") \o BASHRC }

\* Stages with three file operands of which the second names no file
MissingFileRaws ==
  { cmd \o S(" ") \o GROCERY \o S(" nope ") \o BASHRC :
      cmd \in {S("cat"), S("wc"), S("grep -c Milk"), S("cut -f1")} }

OtherRaws ==
  { S("pwd"), S("cd"), S("cd /tmp"), S("foo"), S("cat"), S("cat nope"), S("cat ~/.bashrc"),
    S("cat Examples/grocery.txt"), S("head"), S("head -n 2"), S("tail -2"), S("tail -n +0"),
    S("tail -n +0 ") \o GROCERY, S("tail -n 0"), S("head nope"), S("wc"), S("wc -l"),
    S("wc -lw"), S("wc nope"), S("grep"), S("grep -i milk"), S("grep -c e"), S("grep Milk nope"),
    S("cut"), S("cut -f1"), S("cut -d e -f 2"), S("cut -f0"), S("cut -f1 nope") }

\* The counts given to head and tail: none, fewer and more than the input has
HeadTailCounts == {0, 3, 7}

\* head and tail with a count, their default, and a count with a file operand
HeadTailRaws ==
  { cmd \o S(" -n ") \o String(n) : cmd \in {S("head"), S("tail")}, n \in HeadTailCounts }
    \cup { S("tail"), S("head -3"), S("head -n 3 ") \o GROCERY }

\* Stages with a flag letter or a count the command does not know
InvalidArgumentRaws ==
  { S("ls -z"), S("ls -az /tmp"), S("wc -z"), S("wc -lz"), S("grep -z Milk"),
    S("head -n abc"), S("tail -n x") }

StageRaws ==
  LsRaws \cup MultiFileRaws \cup MissingFileRaws \cup OtherRaws \cup HeadTailRaws
    \cup InvalidArgumentRaws

StageStdins == {None, Some(<<>>), Some(grocery)}

StageInit ==
  /\ cwd \in DirPaths
  /\ stageRaw \in StageRaws
  /\ stageStdin \in StageStdins
  /\ stageOut = None
  /\ ShellIdle
  /\ PathIdle
  /\ MissionIdle

RunStage ==
  /\ IsNull(stageOut)
  /\ stageOut' = Some(runSingle(stageRaw, stageStdin, cwd))
  /\ UNCHANGED <<cwd, shellState, pathVars, stageRaw, stageStdin, suggestions, missionVars>>

StageNext == RunStage

StageSpec == StageInit /\ [][StageNext]_vars

----------------------------------------------------------------------------
(* One line typed into the shell input and submitted, in a session whose    *)
(* cwd is any directory of the tree: the counting pipelines and the cut     *)
(* scenario.                                                                *)

LsCountLines == {S("ls") \o d \o S(" | wc -l") : d \in LsOperands}

GrepPatterns == {S("Milk"), S("milk"), S("e"), S("zzz")}

GrepFlags == {<<>>, S("-i ")}

\* grep on a file piped into wc -l, and the same grep with -c
GrepCountLines ==
  { S("grep ") \o f \o pat \o S(" ") \o GROCERY \o S(" | wc -l") : f \in GrepFlags, pat \in GrepPatterns }
  \cup { S("grep -c ") \o f \o pat \o S(" ") \o GROCERY : f \in GrepFlags, pat \in GrepPatterns }

\* The same count with the file read by cat
CatGrepCountLines ==
  { S("cat ") \o GROCERY \o S(" | grep ") \o f \o pat \o S(" | wc -l") :
      f \in GrepFlags, pat \in GrepPatterns }

CutFieldsLine == S("cut -f1,2 -d $'\\t' sample_metadata.tsv")

TypedLines == LsCountLines \cup GrepCountLines \cup CatGrepCountLines \cup {CutFieldsLine}

LineInit ==
  /\ cwd \in DirPaths
  /\ input \in TypedLines
  /\ error = None
  /\ lsOutput = None
  /\ textOutput = None
  /\ lastCommand = None
  /\ history = <<>>
  /\ historyIndex = None
  /\ outcome = "none"
  /\ calls = <<>>
  /\ suggestions = SuggestionsFor(input, cwd)
  /\ PathIdle
  /\ StageIdle
  /\ MissionIdle

\* The form is submitted with the typed line in the input
SubmitTyped ==
  /\ history = <<>>
  /\ Commit(input, handleShellSubmit(input, cwd))

LineNext == SubmitTyped

LineSpec == LineInit /\ [][LineNext]_vars

----------------------------------------------------------------------------
(* The shell input while a line is typed: the autocomplete effect after  *)
(* every change of the input, and the Tab key.  The tree is the excerpt  *)
(* with all ten children of /home/user, more than the cap of the         *)
(* suggestions.                                                          *)

homeTree ==
  Dir("", <<
    Dir("tmp", <<>>),
    Dir("home", <<
      Dir("user", <<
        Dir("Documents", <<
          Dir("Notes", << File("meeting.txt", None) >>)
        >>),
        Dir("Projects", <<>>),
        Dir("Pictures", <<>>),
        Dir("Downloads", <<>>),
        Dir("Music", <<>>),
        Dir("Videos", <<>>),
        File(".bashrc", None),
        File(".profile", None),
        File("README.txt", None),
        Dir("Examples", << File("grocery.txt", Some(grocery)) >>)
      >>)
    >>)
  >>)

\* The directories the input is typed in
CompletionDirs == {S("/"), S("/home/user"), S("/home/user/Documents")}

\* The directory part of a typed operand: none, absolute, with a tilde,
\* relative, of a directory that does not exist, and of a file
DirParts ==
  { <<>>, S("/"), S("/home/user/"), S("~/"), S("Documents/"), S("../"), S("/nope/"),
    S("README.txt/") }

\* The beginning of a name typed after the directory part
NamePrefixes == { <<>>, S("D"), S("Do"), S("."), S("x") }

\* A command and one operand that is being typed
OperandInputs == { S("cat ") \o d \o n : d \in DirParts, n \in NamePrefixes }

\* Inputs whose last token is a command, a pattern, a flag or a count
OtherInputs ==
  { S("D"), S("foo "), S("foo D"), S("pwd "), S("ca"), S("cat"), S("ls ~"), S("cd Do"),
    S("grep "), S("grep D"), S("grep -i "), S("grep -i D"), S("grep D "), S("grep D D"),
    S("head -n "), S("head -n 1"), S("tail -n 2 "), S("tail -n 2 D"), S("wc -l D"),
    S("ls | foo D"), S("foo | cat D") }

\* Inputs with flags, earlier operands and earlier stages before the token
\* that is being typed
LongerInputs ==
  { S("ls -la D"), S("cat .bashrc R"), S("cat .bashrc | grep x R"), S("ls | wc -l D"),
    S("wc -l .bashrc ~/D") }

CompletionInputs == OperandInputs \cup OtherInputs \cup LongerInputs

CompletionInit ==
  /\ cwd \in CompletionDirs
  /\ input = <<>>
  /\ error = None
  /\ lsOutput = None
  /\ textOutput = None
  /\ lastCommand = None
  /\ history = <<>>
  /\ historyIndex = None
  /\ outcome = "none"
  /\ calls = <<>>
  /\ suggestions = <<>>
  /\ PathIdle
  /\ StageIdle
  /\ MissionIdle

\* onChange of the shell input: the user replaces the input by line, and
\* the autocomplete effect runs
TypeInput(line) ==
  /\ input' = line
  /\ suggestions' = Autocomplete(line, cwd, homeTree)
  /\ UNCHANGED <<cwd, error, lsOutput, textOutput, lastCommand, history, historyIndex, outcome,
                 calls, pathVars, stageVars, missionVars>>

\* The Tab key in the shell input: the first suggestion is accepted, the
\* suggestions are emptied, and the autocomplete effect runs when the input
\* changed
PressTab ==
  /\ Len(suggestions) > 0
  /\ input' = TabValue(input, suggestions[1])
  /\ suggestions' = (IF TabValue(input, suggestions[1]) = input THEN <<>>
                     ELSE Autocomplete(TabValue(input, suggestions[1]), cwd, homeTree))
  /\ UNCHANGED <<cwd, error, lsOutput, textOutput, lastCommand, history, historyIndex, outcome,
                 calls, pathVars, stageVars, missionVars>>

CompletionNext ==
  \/ \E line \in CompletionInputs : TypeInput(line)
  \/ PressTab

CompletionSpec == CompletionInit /\ [][CompletionNext]_vars

----------------------------------------------------------------------------
(* The history of the shell input: submits and the ArrowUp and ArrowDown *)
(* keys pressed in the input                                             *)

\* The lines submitted in a session that browses its history
HistoryLines ==
  { <<>>, S("ls"), S("pwd"), S("cd .."), S("cd Documents/Notes"), S("head ~/Examples/grocery.txt") }

\* history[idx] || "": idx may lie outside the array
HistoryEntry(idx) == IF IsNull(At(history, idx)) THEN <<>> ELSE Val(At(history, idx))

\* idx of the ArrowUp branch of handleKeyDown
UpIndex == IF IsNull(historyIndex) THEN Len(history) - 1 ELSE Max(0, Val(historyIndex) - 1)

\* idx of the ArrowDown branch of handleKeyDown
DownIndex == Min(Len(history) - 1, Val(historyIndex) + 1)

\* The ArrowUp key in the shell input
HistoryUp ==
  /\ input' = HistoryEntry(UpIndex)
  /\ historyIndex' = Some(UpIndex)
  /\ suggestions' = SuggestionsFor(HistoryEntry(UpIndex), cwd)
  /\ UNCHANGED <<cwd, error, lsOutput, textOutput, lastCommand, history, outcome, calls,
                 pathVars, stageVars, missionVars>>

\* The ArrowDown key in the shell input: nothing happens while the index is
\* null
HistoryDown ==
  /\ ~IsNull(historyIndex)
  /\ input' = HistoryEntry(DownIndex)
  /\ historyIndex' = Some(DownIndex)
  /\ suggestions' = SuggestionsFor(HistoryEntry(DownIndex), cwd)
  /\ UNCHANGED <<cwd, error, lsOutput, textOutput, lastCommand, history, outcome, calls,
                 pathVars, stageVars, missionVars>>

HistoryNext ==
  \/ \E line \in HistoryLines : Submit(line)
  \/ HistoryUp
  \/ HistoryDown

HistorySpec == Init /\ [][HistoryNext]_vars

----------------------------------------------------------------------------
(* The exercises: hooks/useMissions with the groups of Missions.tsx and  *)
(* the Reset All button and the tabs of Exercises.  isComplete() of a     *)
(* mission is a predicate of lsOutput, textOutput, cwd and lastCommand;  *)
(* satisfied holds the missions whose predicate is true in the render.   *)

\* The first two missions of the first three groups, in their order
MissionGroups ==
  << <<"list-home", "show-hidden-home">>,
     <<"head-chapter1", "tail-chapter2">>,
     <<"count-fasta-seqs", "thesis-sizes">> >>

MissionIds == UNION {{MissionGroups[g][k] : k \in 1..Len(MissionGroups[g])} : g \in 1..Len(MissionGroups)}

\* The missions that test the path and the flags of the one lsOutput: no
\* two of them hold together
LsMissions == {"list-home", "show-hidden-home", "thesis-sizes"}

\* The sets of missions whose isComplete() can hold in one render
SatisfiedSets == {t \in SUBSET MissionIds : Cardinality(t \cap LsMissions) <= 1}

\* A pass over a group that marks a mission without looking at the earlier ones
RECURSIVE MergeGroupUnordered(_, _, _, _)
MergeGroupUnordered(missions, idx, copy, sat) ==
  IF idx > Len(missions) THEN copy
  ELSE MergeGroupUnordered(missions, idx + 1,
                           IF missions[idx] \in sat THEN copy \cup {missions[idx]} ELSE copy, sat)

\* group.missions.forEach of the merge effect, from the mission at idx on:
\* a mission is added when every earlier mission of the group is in copy
\* and its isComplete() holds
RECURSIVE MergeGroup(_, _, _, _)
MergeGroup(missions, idx, copy, sat) ==
  IF idx > Len(missions) THEN copy
  ELSE IF missions[idx] \in copy THEN MergeGroup(missions, idx + 1, copy, sat)
  ELSE IF (\A j \in 1..(idx - 1) : missions[j] \in copy) /\ missions[idx] \in sat
  THEN MergeGroup(missions, idx + 1, copy \cup {missions[idx]}, sat)
  ELSE MergeGroup(missions, idx + 1, copy, sat)

\* allMissions.forEach of the merge effect, from the group at g on
RECURSIVE MergeGroups(_, _, _)
MergeGroups(g, copy, sat) ==
  IF g > Len(MissionGroups) THEN copy
  ELSE MergeGroups(g + 1, MergeGroup(MissionGroups[g], 1, copy, sat), sat)

\* An effect that computes the completed missions afresh from the render
RecomputeEffect(prev, sat) == MergeGroups(1, {}, sat)

\* The merge effect: the updater given to setCompletedMissions
MergeEffect(prev, sat) == MergeGroups(1, prev, sat)

\* The id of the last mission of the group at index i (from 0)
LastId(i) == MissionGroups[i + 1][Len(MissionGroups[i + 1])]

\* The effects of one render whose state is st: the merge effect queues the
\* merged set, the auto-advance effect compares prevRef with the completed
\* set of the render and records it
RunEffects(st, sat) ==
  [completed |-> MergeEffect(st.completed, sat),
   index |-> IF LastId(st.index) \notin st.prev /\ LastId(st.index) \in st.completed
                /\ st.index < Len(MissionGroups) - 1
             THEN st.index + 1 ELSE st.index,
   prev |-> st.completed]

\* The renders that follow an update, until the effects change nothing
RECURSIVE Settle(_, _)
Settle(st, sat) == IF RunEffects(st, sat) = st THEN st ELSE Settle(RunEffects(st, sat), sat)

\* useMissions after an update that left it in st with the missions sat
\* satisfied
Rendered(st, sat) ==
  With(Settle(st, sat), LAMBDA end :
    /\ completedMissions' = end.completed
    /\ currentGroupIndex' = end.index
    /\ prevRef' = end.prev
    /\ satisfied' = sat)

\* The shell state and the calls of the other specifications stay as they are
ShellUntouched ==
  UNCHANGED <<cwd, input, error, lsOutput, textOutput, lastCommand, history, historyIndex,
              outcome, calls, pathVars, stageVars, suggestions>>

\* A submitted line or a change of the cwd after which isComplete() holds
\* for the missions of sat
ShellActivity(sat) ==
  /\ Rendered([completed |-> completedMissions, index |-> currentGroupIndex, prev |-> prevRef], sat)
  /\ ShellUntouched

\* The Reset All button of Exercises: setCompletedMissions(new Set())
ResetAll ==
  /\ Rendered([completed |-> {}, index |-> currentGroupIndex, prev |-> prevRef], satisfied)
  /\ ShellUntouched

\* A click on the tab of the group at index i: setCurrentGroupIndex(i)
SelectGroup(i) ==
  /\ Rendered([completed |-> completedMissions, index |-> i, prev |-> prevRef], satisfied)
  /\ ShellUntouched

MissionNext ==
  \/ \E sat \in SatisfiedSets : ShellActivity(sat)
  \/ ResetAll
  \/ \E i \in 0..(Len(MissionGroups) - 1) : SelectGroup(i)

MissionSpec == Init /\ [][MissionNext]_vars

----------------------------------------------------------------------------
(* Properties *)

\* The line of the last submit, trimmed
LastLine == Val(lastCommand)

\* The tokens of a stage, and its command
Tokens(stage) == FilterBoolean(Split(stage, " "))

Command(stage) == Tokens(stage)[1]

\* A step of Submit: the only action that appends to the history
Submitted == history' # history

\* A line with one stage whose command is cd
IsSingleCd(t) == t # <<>> /\ Len(SplitStages(t)) =< 1 /\ Command(t) = S("cd")

NodeIsDir(p) ==
  /\ ~IsNull(findNodeByPath(fileSystem, p))
  /\ Val(findNodeByPath(fileSystem, p)).type = "dir"

IsNormalizedAbsolute(p) ==
  /\ Len(p) >= 1
  /\ p[1] = "/"
  /\ (Len(p) > 1 =>
       LET segs == Split(Drop(p, 1), "/")
       IN \A i \in 1..Len(segs) : segs[i] \notin {<<>>, S("."), S("..")})

\* C1: after any sequence of submitted lines, tree clicks and arrow keys, the
\* current directory is an absolute, normalized path (leading "/", no empty,
\* "." or ".." segment) that names an existing directory of the filesystem.
C1_CwdIsDirectory == IsNormalizedAbsolute(cwd) /\ NodeIsDir(cwd)

C1_Witness ==
  /\ lastCommand = Some(S("cd ~/Documents/../Examples/."))
  /\ outcome = "success"
  /\ cwd = S("/home/user/Examples")

\* C2: a submitted line changes the current directory only when it is a
\* single-stage cd that is accepted; every other submitted line (another
\* builtin, a pipeline, a rejected line, a cd to something that is not a
\* directory) leaves the current directory as it was.
C2_OnlyAcceptedCdMoves ==
  [][(Submitted /\ cwd' # cwd) =>
       (IsSingleCd(Val(lastCommand')) /\ outcome' = "success" /\ IsNull(error'))]_vars

C2_Witness ==
  /\ history = <<S("cd Documents/Notes"), S("ls | cd /tmp")>>
  /\ cwd = S("/home/user/Documents/Notes")
  /\ outcome = "failure"

\* The target a cd line names, resolved against the directory c
CdTarget(t, c) ==
  LET raw == Join(Tail(Tokens(t)), S(" "))
      expanded == expandTilde(raw)
  IN IF StartsWith(expanded, S("/")) THEN normalizePath(expanded)
     ELSE normalizePath(c \o S("/") \o expanded)

\* C3: a single-stage cd with an argument whose resolved target is missing or
\* is a file leaves the current directory unchanged and ends the line with an
\* error, with no text and no listing.
C3_FailedCdKeepsCwd ==
  [][(/\ Submitted
      /\ IsSingleCd(Val(lastCommand'))
      /\ Len(Tokens(Val(lastCommand'))) > 1
      /\ ~NodeIsDir(CdTarget(Val(lastCommand'), cwd)))
     => (/\ cwd' = cwd
         /\ outcome' = "failure"
         /\ ~IsNull(error')
         /\ IsNull(textOutput')
         /\ IsNull(lsOutput'))]_vars

C3_Witness ==
  /\ lastCommand = Some(S("cd .bashrc"))
  /\ error = Some(S("cd: not a directory: .bashrc"))
  /\ cwd = S("/home/user")
  /\ IsNull(textOutput) /\ IsNull(lsOutput)

\* The stages of the last submitted line
Stages == SplitStages(LastLine)

\* The last submitted line has two or more non-empty stages
IsPipeline == ~IsNull(lastCommand) /\ Len(Stages) >= 2

\* The line t has two or more non-empty stages
IsPipelineLine(t) == Len(SplitStages(t)) >= 2

\* The positions of the stages of the line t whose command is cd
CdStages(t) == {i \in 1..Len(SplitStages(t)) : Command(SplitStages(t)[i]) = S("cd")}

FirstCdStage(t) == CHOOSE i \in CdStages(t) : \A j \in CdStages(t) : i =< j

\* The call of runSingle at position j returned, and returned no error
Returned(j) == ~calls[j].out.threw /\ IsNull(calls[j].out.error)

\* The text a stage hands on: its text, or its listing written one entry a line
StageText(out) == IF ~IsNull(out.text) THEN out.text ELSE Some(ListingText(Val(out.ls).entries))

\* C4 (as amended): a line of two or more stages with a cd stage never
\* succeeds, keeps no text and no listing and leaves the current directory
\* unchanged; its error is "cd: cannot be piped" exactly when the stages run
\* are those up to and including the first cd stage, that is, when every stage
\* before it returned without error.
C4_PipedCdNeverSucceeds ==
  [][(Submitted /\ IsPipelineLine(Val(lastCommand')) /\ CdStages(Val(lastCommand')) # {})
     => (/\ outcome' # "success"
         /\ IsNull(textOutput')
         /\ IsNull(lsOutput')
         /\ cwd' = cwd
         /\ (error' = Some(PipeNotSupported)) <=> (Len(calls') = FirstCdStage(Val(lastCommand'))))]_vars

C4_Witness ==
  /\ lastCommand = Some(S("pwd | cd | cat"))
  /\ error = Some(PipeNotSupported)
  /\ Len(calls) = 2
  /\ IsNull(textOutput) /\ IsNull(lsOutput)

\* C4 (as stated), for the lines that run to completion: a line of two or
\* more stages with a cd stage at any position ends with the error
\* "cd: cannot be piped", no text, no listing and the current directory
\* unchanged.
C4_PipedCdIsPipeNotSupported ==
  [][(/\ Submitted
      /\ IsPipelineLine(Val(lastCommand'))
      /\ CdStages(Val(lastCommand')) # {}
      /\ outcome' # "exception")
     => (/\ error' = Some(PipeNotSupported)
         /\ IsNull(textOutput')
         /\ IsNull(lsOutput')
         /\ cwd' = cwd)]_vars

\* C5: in a pipeline the stages run are a prefix of the line's stages, and
\* when a stage reports an error it is the last stage run, the line's error is
\* that stage's error and the line has no text and no listing.
C5_StageErrorAborts ==
  IsPipeline =>
    /\ Len(calls) =< Len(Stages)
    /\ \A j \in 1..Len(calls) :
         /\ calls[j].stage = Stages[j]
         /\ ~IsNull(calls[j].out.error) =>
              /\ j = Len(calls)
              /\ outcome = "failure"
              /\ error = calls[j].out.error
              /\ IsNull(textOutput)
              /\ IsNull(lsOutput)

C5_Witness ==
  /\ lastCommand = Some(S("pwd | foo | cat"))
  /\ Len(calls) = 2
  /\ calls[1].out.text = Some(S("/home/user"))
  /\ ~IsNull(calls[2].out.error)
  /\ error = calls[2].out.error

\* C6: in a line of n >= 2 stages that the validator lets through and of which
\* no stage run fails, the n stages are run once each from left to right, the
\* first without stdin and each later one with the text of the stage before
\* it as stdin, and the line's text is the text of the last stage.
C6_StagesThreadText ==
  (IsPipeline /\ calls # <<>> /\ \A j \in 1..Len(calls) : Returned(j)) =>
    /\ Len(calls) = Len(Stages)
    /\ \A j \in 1..Len(calls) : calls[j].stage = Stages[j]
    /\ IsNull(calls[1].stdin)
    /\ \A j \in 2..Len(calls) : calls[j].stdin = StageText(calls[j - 1].out)
    /\ textOutput = StageText(calls[Len(calls)].out)
    /\ outcome = "success"

C6_Witness ==
  /\ lastCommand = Some(S("cat ~/Examples/grocery.txt | grep -i e | head -n 2"))
  /\ outcome = "success"
  /\ Len(calls) = 3
  /\ calls[2].out.text # calls[1].out.text
  /\ calls[3].out.text # calls[2].out.text
  /\ textOutput = calls[3].out.text

\* The positions of the stages run for the last line whose command is ls
LsCalls == {j \in 1..Len(calls) : Command(calls[j].stage) = S("ls")}

LastLsCall == CHOOSE j \in LsCalls : \A k \in LsCalls : k =< j

\* C7 (as amended): for a successful line of two or more stages, the listing
\* reported is that of the last stage whose command is ls, whatever its
\* position, and there is no listing only when no stage is ls.
C7_ListingIsLastLsStages ==
  (IsPipeline /\ outcome = "success") =>
    IF LsCalls = {} THEN IsNull(lsOutput)
    ELSE ~IsNull(lsOutput) /\ lsOutput = calls[LastLsCall].out.ls

C7_Witness ==
  /\ lastCommand = Some(S("ls | wc -l"))
  /\ outcome = "success"
  /\ ~IsNull(lsOutput)
  /\ lsOutput = calls[1].out.ls
  /\ IsNull(calls[2].out.ls)
  /\ textOutput = calls[2].out.text

\* C7 (as stated): for a successful line of two or more stages, the listing
\* reported is the listing of the final stage, and there is none when the
\* final stage is not ls.
C7_ListingIsFinalStages ==
  (IsPipeline /\ outcome = "success") => lsOutput = calls[Len(calls)].out.ls

\* C8: every submitted line runs to completion: it is empty, or it ends in
\* success, or it ends in failure with an error reported; no builtin raises
\* an exception that leaves the handler.
C8_EveryLineCompletes ==
  /\ outcome \in {"none", "empty", "success", "failure"}
  /\ outcome = "failure" => ~IsNull(error)
  /\ \A j \in 1..Len(calls) : ~calls[j].out.threw

\* The characters the validator rejects, the pipe apart
Rejected == {BACKTICK, ";", "&", ">", "<", "$"}

HasRejectedChar(t) == \E i \in 1..Len(t) : t[i] \in Rejected

HasUnrecognized(t) ==
  \E i \in 1..Len(SplitStages(t)) : Command(SplitStages(t)[i]) \notin allowedCommands

\* C10: no line succeeds with an unrecognized command: without a pipe, a line
\* whose first token is not a builtin is rejected before any builtin is
\* called; with pipes, a line with a stage whose first token is not a builtin
\* ends in failure.
C10_UnrecognizedNeverSucceeds ==
  (~IsNull(lastCommand) /\ LastLine # <<>> /\ HasUnrecognized(LastLine)) =>
    /\ outcome = "failure"
    /\ ~IsNull(error)
    /\ ~Includes(LastLine, S("|")) => calls = <<>>
----------------------------------------------------------------------------
(* Properties of utils/path.ts, under PathSpec *)

\* The segments between the slashes of an absolute path; none for "/"
SegmentsOf(p) == IF p = S("/") THEN <<>> ELSE Split(Drop(p, 1), "/")

IsClean(p) ==
  /\ StartsWith(p, S("/"))
  /\ \A i \in 1..Len(SegmentsOf(p)) : SegmentsOf(p)[i] \notin {<<>>, S("."), S("..")}

Normalized == ~IsNull(pathOut) /\ Val(pathOut).fn = "normalizePath"

Relativized == ~IsNull(pathOut) /\ Val(pathOut).fn = "relativePath"

\* C11: for every path string p, absolute or relative, with any mix of
\* empty, "." and ".." segments, normalizePath(p) starts with "/", has no
\* empty, "." or ".." segment, and is a fixed point of normalizePath; a ".."
\* beyond the root is dropped.
C11_NormalizeIsCleanAndIdempotent ==
  Normalized =>
    /\ IsClean(Val(pathOut).ret)
    /\ normalizePath(Val(pathOut).ret) = Val(pathOut).ret

\* A relative path with more ".." than depth, an empty and a "." segment
C11_Witness ==
  /\ Normalized
  /\ pathFrom \in {S("../a"), S("a/.."), S(".//a"), S("/../")}
  /\ Val(pathOut).ret \in {S("/a"), S("/")}

\* C12: for any two paths a and b, joinPaths(a, relativePath(a, b)) is
\* normalizePath(b), relativePath(a, that result) is relativePath(a, b)
\* again, and the relative path between two paths of the same normal form
\* is ".".
C12_RelativePathRoundTrips ==
  Relativized =>
    /\ joinPaths(pathFrom, Val(pathOut).ret) = normalizePath(pathTo)
    /\ relativePath(pathFrom, joinPaths(pathFrom, Val(pathOut).ret)) = Val(pathOut).ret
    /\ (normalizePath(pathFrom) = normalizePath(pathTo) => Val(pathOut).ret = S("."))

\* A relative path that goes up and then down
C12_Witness ==
  /\ Relativized
  /\ pathFrom = S("/a")
  /\ pathTo = S("/aa")
  /\ Val(pathOut).ret = S("../aa")

----------------------------------------------------------------------------
(* Properties of the dispatcher, under StageSpec *)

\* The stage was run and returned (it did not throw)
StageReturned == ~IsNull(stageOut) /\ ~Val(stageOut).threw

StageThrew == ~IsNull(stageOut) /\ Val(stageOut).threw

\* The names of the entries of a listing
EntryNames(l) == {l.entries[i].name : i \in 1..Len(l.entries)}

\* The names of the children of the directory at path p
ChildNames(p) ==
  {Val(findNodeByPath(fileSystem, p)).children[i].name :
     i \in 1..Len(Val(findNodeByPath(fileSystem, p)).children)}

DotNames(p) == {n \in ChildNames(p) : StartsWith(n, S("."))}

\* The directory an operand of LsOperands names in a session whose cwd is c
LsTarget(d, c) == IF d = <<>> THEN c ELSE Drop(d, 1)

\* C13: for every directory d, the entries of `ls -a d` include the entries
\* of `ls d`, the entries of `ls -a d` that `ls d` lacks are exactly the
\* children of d whose name starts with ".", and `ls d` lists no name that
\* starts with ".".
C13_LsAllAddsDotNames ==
  \A d \in LsOperands :
    /\ (stageRaw = S("ls") \o d /\ ~IsNull(stageOut)) =>
         /\ StageReturned
         /\ ~IsNull(Val(stageOut).ls)
         /\ \A n \in EntryNames(Val(Val(stageOut).ls)) : ~StartsWith(n, S("."))
    /\ (stageRaw \in {S("ls -a") \o d, S("ls -la") \o d} /\ ~IsNull(stageOut)) =>
         /\ StageReturned
         /\ ~IsNull(Val(stageOut).ls)
         /\ ~IsNull(runSingle(S("ls") \o d, stageStdin, cwd).ls)
         /\ With(EntryNames(Val(runSingle(S("ls") \o d, stageStdin, cwd).ls)), LAMBDA plain :
              /\ plain \subseteq EntryNames(Val(Val(stageOut).ls))
              /\ EntryNames(Val(Val(stageOut).ls)) \ plain = DotNames(LsTarget(d, cwd)))

\* `ls -a` of the home directory, whose listing has .bashrc
C13_Witness ==
  /\ StageReturned
  /\ stageRaw = S("ls -a /home/user")
  /\ cwd = S("/tmp")
  /\ S(".bashrc") \in EntryNames(Val(Val(stageOut).ls))
  /\ S(".bashrc") \notin EntryNames(Val(runSingle(S("ls /home/user"), stageStdin, cwd).ls))

\* The k-th word of a line of wc, as a number
WcNumber(line, k) == Val(parseInt(Split(line, " ")[k]))

\* The sum of the k-th numbers of the lines
RECURSIVE SumColumn(_, _)
SumColumn(lines, k) ==
  IF Len(lines) = 0 THEN 0 ELSE WcNumber(lines[1], k) + SumColumn(Tail(lines), k)

\* wc with no flag and two or more file operands
WcMultiRaws == {r \in MultiFileRaws : Command(r) = S("wc")}

\* C15: for wc with no flag and N > 1 file operands, the three numbers of
\* the final total line are the sums of the line, word and byte counts of
\* the per-file lines of the same output.
C15_WcTotalIsSumOfFiles ==
  (stageRaw \in WcMultiRaws /\ ~IsNull(stageOut)) =>
    /\ StageReturned
    /\ ~IsNull(Val(stageOut).text)
    /\ With(Split(Val(Val(stageOut).text), NL), LAMBDA lines :
         /\ Len(lines) = Len(Tokens(stageRaw))
         /\ Split(lines[Len(lines)], " ")[4] = S("total")
         /\ \A k \in 1..3 :
              WcNumber(lines[Len(lines)], k) = SumColumn(SubSeq(lines, 1, Len(lines) - 1), k))

\* C17: `tail -n +0 <file>`, and `tail -n +0` on stdin, is rejected: the
\* stage returns an error and no text.
C17_TailPlusZeroRejected ==
  (stageRaw \in {S("tail -n +0"), S("tail -n +0 ") \o GROCERY} /\ ~IsNull(stageOut)) =>
    /\ StageReturned
    /\ ~IsNull(Val(stageOut).error)
    /\ IsNull(Val(stageOut).text)

\* The lines of the input of a stage that reads stdin
StdinLines == Split(Val(stageStdin), NL)

\* The first (head) or last (tail) Min(n, m) lines of the m lines of stdin
FirstOrLast(cmd, n) ==
  IF cmd = S("head") THEN SubSeq(StdinLines, 1, Min(n, Len(StdinLines)))
  ELSE SubSeq(StdinLines, Len(StdinLines) - Min(n, Len(StdinLines)) + 1, Len(StdinLines))

\* C23: for every N >= 0 and every input of m lines, `head -n N` returns
\* exactly the first min(N, m) lines and `tail -n N` exactly the last
\* min(N, m) lines, in order; without a count N is 10; N = 0 yields no line.
C23_HeadTailReturnMinLines ==
  /\ \A cmd \in {S("head"), S("tail")} : \A n \in HeadTailCounts :
       (stageRaw = cmd \o S(" -n ") \o String(n) /\ ~IsNull(stageStdin) /\ ~IsNull(stageOut)) =>
         /\ StageReturned
         /\ Val(stageOut).text = Some(Join(FirstOrLast(cmd, n), <<NL>>))
  /\ \A cmd \in {S("head"), S("tail")} :
       (stageRaw = cmd /\ ~IsNull(stageStdin) /\ ~IsNull(stageOut)) =>
         /\ StageReturned
         /\ Val(stageOut).text = Some(Join(FirstOrLast(cmd, 10), <<NL>>))
  /\ (stageRaw = S("head -n 3 ") \o GROCERY /\ ~IsNull(stageOut)) =>
         /\ StageReturned
         /\ Val(stageOut).text = Some(Join(SubSeq(Split(grocery, NL), 1, 3), <<NL>>))

\* C24: a stage with an unrecognized flag letter for ls, wc or grep, or a
\* non-numeric value after `head -n` / `tail -n`, ends with an error and
\* produces neither a listing nor text.
C24_InvalidArgumentReported ==
  (stageRaw \in InvalidArgumentRaws /\ ~IsNull(stageOut)) =>
    /\ StageReturned
    /\ ~IsNull(Val(stageOut).error)
    /\ IsNull(Val(stageOut).text)
    /\ IsNull(Val(stageOut).ls)

\* A stage whose command is not ls, that was run and returned
NonLsReturned == StageReturned /\ Command(stageRaw) # S("ls")

\* Some operand of the stage names no file
HasMissingOperand(stage, c) ==
  \E i \in 2..Len(Tokens(stage)) : IsNull(getFileContentLocal(Tokens(stage)[i], c, TRUE).file)

IndexOf(s, p) ==
  IF Includes(s, p)
  THEN CHOOSE i \in 1..Len(s) :
         /\ SubSeq(s, i, i + Len(p) - 1) = p
         /\ \A j \in 1..(i - 1) : SubSeq(s, j, j + Len(p) - 1) # p
  ELSE 0

\* C20: in a cat, wc, grep or cut stage with several file operands, a
\* missing file does not stop the stage: the stage returns the error of the
\* missing file together with a text to which the files before and after it
\* contributed, in argument order.
C20_MissingFileDoesNotStop ==
  (stageRaw \in MissingFileRaws /\ ~IsNull(stageOut)) =>
    /\ StageReturned
    /\ Val(stageOut).error = Some(Command(stageRaw) \o S(": nope: No such file"))
    /\ ~IsNull(Val(stageOut).text)
    /\ IndexOf(Val(Val(stageOut).text), GROCERY) > 0
    /\ IndexOf(Val(Val(stageOut).text), BASHRC) > IndexOf(Val(Val(stageOut).text), GROCERY)

----------------------------------------------------------------------------
(* Properties of the counting pipelines and of the cut scenario, under      *)
(* LineSpec                                                                 *)

\* The line that was submitted
SubmittedLine(line) == ~IsNull(lastCommand) /\ LastLine = line

\* The first whitespace-separated word of a text
FirstWord(text) == SplitWS(Trim(text))[1]

\* The number of children of the directory at p whose name has no leading "."
VisibleCount(p) == Cardinality(ChildNames(p) \ DotNames(p))

\* C14: for every directory d, empty ones included, the line `ls d | wc -l`
\* succeeds and its text is the number of entries of d whose name does not
\* start with "." (read as the first word of the text).
C14_LsPipedToWcCountsEntries ==
  \A d \in LsOperands :
    SubmittedLine(S("ls") \o d \o S(" | wc -l")) =>
      /\ outcome = "success"
      /\ ~IsNull(textOutput)
      /\ FirstWord(Val(textOutput)) = String(VisibleCount(LsTarget(d, cwd)))

\* The number of lines of grocery.txt in which pat occurs, whatever the case
\* of the letters when ignoreCase
MatchCount(pat, ignoreCase) ==
  Cardinality({i \in 1..Len(Split(grocery, NL)) :
                 IF ignoreCase THEN Includes(toLowerCase(Split(grocery, NL)[i]), toLowerCase(pat))
                 ELSE Includes(Split(grocery, NL)[i], pat)})

\* C16: for an existing file f and a pattern P, with or without -i, the line
\* `grep P f | wc -l` succeeds with a single integer, the number of lines
\* of f that match P (0 when none does), and `grep -c P f` reports the
\* same number.
C16_GrepPipedToWcCountsMatches ==
  \A f \in GrepFlags : \A pat \in GrepPatterns :
    (\/ SubmittedLine(S("grep ") \o f \o pat \o S(" ") \o GROCERY \o S(" | wc -l"))
     \/ SubmittedLine(S("grep -c ") \o f \o pat \o S(" ") \o GROCERY)) =>
      /\ outcome = "success"
      /\ textOutput = Some(String(MatchCount(pat, f # <<>>)))

\* C18: the line `cut -f1,2 -d $'\t' sample_metadata.tsv` succeeds and its
\* text has, for each line of the file, the first two tab-separated fields:
\* the header sample_id, condition and the row s1, control.
C18_CutScenarioSucceeds ==
  SubmittedLine(CutFieldsLine) =>
    /\ outcome = "success"
    /\ ~IsNull(textOutput)
    /\ Len(Split(Val(textOutput), NL)) >= 2
    /\ Split(Val(textOutput), NL)[1] = S("sample_id") \o <<TAB>> \o S("condition")
    /\ Split(Val(textOutput), NL)[2] = S("s1") \o <<TAB>> \o S("control")

----------------------------------------------------------------------------
(* Properties of the autocomplete engine and of the Tab key *)

\* The directory in which an operand with the directory part d is completed
BaseOf(d, c) ==
  IF d = <<>> THEN c
  ELSE IF StartsWith(d, S("/")) THEN normalizePath(d)
  ELSE IF StartsWith(d, S("~")) THEN normalizePath(expandTilde(d))
  ELSE joinPaths(c, d)

\* The children of that directory whose name starts with n, in stored order;
\* none when it does not exist or is a file
Candidates(d, n, c) ==
  With(findNodeByPath(homeTree, BaseOf(d, c)), LAMBDA node :
    IF IsNull(node) \/ Val(node).type # "dir" THEN <<>>
    ELSE SelectSeq(Val(node).children, LAMBDA ch : StartsWith(ch.name, n)))

\* C21: for a path-completable argument the suggestions are at most 8, and
\* they are exactly the first (up to 8) children of the base directory whose
\* name starts with the prefix, in stored child order, a directory ending in
\* "/" and a file not; a base directory that does not exist or is a file
\* yields none.
C21_SuggestionsAreFirstEightMatches ==
  \A d \in DirParts : \A n \in NamePrefixes :
    input = S("cat ") \o d \o n =>
      With(Candidates(d, n, cwd), LAMBDA kids :
        /\ Len(suggestions) <= 8
        /\ Len(suggestions) = Min(8, Len(kids))
        /\ \A i \in 1..Len(suggestions) :
             suggestions[i] = d \o kids[i].name \o (IF kids[i].type = "dir" THEN S("/") ELSE <<>>))

\* `cat ` typed in the home directory, which has ten children: the first
\* eight are suggested, the directories with their slash
C21_Witness ==
  /\ cwd = HOME
  /\ input = S("cat ")
  /\ Len(Candidates(<<>>, <<>>, cwd)) = 10
  /\ Len(suggestions) = 8
  /\ suggestions[1] = S("Documents/")
  /\ suggestions[8] = S(".profile")

\* The tokens of the last stage of the input, the last one being the token
\* that is typed: empty when the stage is empty or ends with a space
TypedTokens(inp) ==
  With(Split(inp, "|"), LAMBDA stages :
  With(stages[Len(stages)], LAMBDA last :
  With(FilterBoolean(SplitWS(Trim(last))), LAMBDA toks :
    IF Len(last) = 0 \/ IsSpace(last[Len(last)]) THEN Append(toks, <<>>) ELSE toks)))

\* The typed token is an operand of a command that takes paths: not the
\* command itself, not the pattern of grep (the first token after grep that
\* is not a flag), not the count after -n of head or tail
InPathPosition(toks) ==
  /\ Len(toks) >= 2
  /\ toks[1] \in {S("cd"), S("ls"), S("cat"), S("head"), S("tail"), S("wc"), S("cut"), S("grep")}
  /\ toks[1] = S("grep") => \E i \in 2..(Len(toks) - 1) : ~StartsWith(toks[i], S("-"))
  /\ toks[1] \in {S("head"), S("tail")} => toks[Len(toks) - 1] # S("-n")

\* C22: no suggestions are offered when the first token of the last stage is
\* not a recognized command or the typed token is not in a path position:
\* the pattern of grep, also after flags, and the value after -n of head or
\* tail are never completed as paths.
C22_NoSuggestionOutsidePathPosition ==
  ~InPathPosition(TypedTokens(input)) => suggestions = <<>>

\* The input up to the beginning of its last token
BeforeLastToken(inp) ==
  With({i \in 1..Len(inp) : IsSpace(inp[i]) \/ inp[i] = "|"}, LAMBDA seps :
    IF seps = {} THEN <<>> ELSE SubSeq(inp, 1, Nth(seps, Cardinality(seps))))

\* C30: accepting a completion with Tab changes only the last token of the
\* last stage: the earlier stages and, in the last stage, the command, its
\* flags and its earlier operands stay in the input as they were.
C30_TabChangesOnlyLastToken ==
  [][PressTab => StartsWith(input', BeforeLastToken(input))]_vars

----------------------------------------------------------------------------
(* Properties of the history of the shell input *)

\* C29: after any interleaving of submits, ArrowUp and ArrowDown in the shell
\* input, ArrowUp before the first submit included, the history index is
\* null or an index i with 0 <= i < history.length.
C29_HistoryIndexNullOrValid ==
  IsNull(historyIndex) \/ (0 <= Val(historyIndex) /\ Val(historyIndex) < Len(history))

\* Every submit appends exactly one entry to the history and resets the
\* index to null
C29_SubmitAppendsOneEntry ==
  [][(\E line \in HistoryLines : Submit(line)) =>
       /\ Len(history') = Len(history) + 1
       /\ SubSeq(history', 1, Len(history)) = history
       /\ IsNull(historyIndex')]_vars

----------------------------------------------------------------------------
(* Properties of the exercises *)

\* The completed missions of the group are its first k missions, for some k
IsPrefixOfGroup(missions) ==
  \A k \in 1..Len(missions) :
    missions[k] \in completedMissions => \A j \in 1..(k - 1) : missions[j] \in completedMissions

\* C25: starting with no stored progress, the completed missions of each
\* group always form a prefix of the group's list: a mission is never marked
\* completed while an earlier mission of its group is not, even when its own
\* condition holds first.
C25_CompletedIsPrefixOfEachGroup ==
  \A g \in 1..Len(MissionGroups) : IsPrefixOfGroup(MissionGroups[g])

\* The condition of the second mission of a group holds, that of the first
\* does not and never did: neither is completed
C25_Witness ==
  /\ "show-hidden-home" \in satisfied
  /\ "list-home" \notin completedMissions
  /\ "show-hidden-home" \notin completedMissions
  /\ "head-chapter1" \in completedMissions

AutomaticStep == (\E sat \in SatisfiedSets : ShellActivity(sat)) \/ ResetAll

C28_ResetAllLeavesNothingCompleted ==
  [][ResetAll => completedMissions' = {}]_vars

====
